---- MODULE Spec2Model ----
(***************************************************************************)
(* Marketing-agent backend: the turn pipeline (intent recognition, feature  *)
(* matching, strategy, impact prediction, final analysis), the session      *)
(* store and the rule evaluator, modelled from backend/app.                 *)
(***************************************************************************)
EXTENDS Integers, Sequences, FiniteSets, TLC

\* ------------------------------------------------------------------ bounds
MaxTurns == 2        \* turns handled in one run of the service
MaxSessions == 1     \* sessions the store may hold in one run
MaxRules == 2        \* rules in one rule list of the evaluator runs

\* ------------------------------------------------------- JSON / dict values
\* A Python dict is a record over all keys it may carry; a key the dict does
\* not carry holds Absent.  JSON null (Python None) is Null.
Absent == "absent"
Null == "null"

\* A list-valued entry is tagged, so that a missing key, a null and a list
\* stay comparable.
AbsentList == [k |-> "absent", v |-> <<>>]
NullList == [k |-> "null", v |-> <<>>]
ListOf(s) == [k |-> "list", v |-> s]

\* dict.get(key, default) for a scalar entry and for a list entry
Get(val, default) == IF val = Absent THEN default ELSE val
GetList(val, default) == IF val.k = "absent" THEN default ELSE val

\* Python truthiness of a flag value taken from a JSON payload
Truthy(v) == v \notin {"false", Null, "", "0"}

\* ------------------------------------------------------------ UserIntent
DefaultKpi == "conversion_rate"
DefaultSize == "min50max500"
EmptyMap == "{}"

\* the dict {} : no key at all
EmptyDict ==
    [business_goal |-> Absent, target_audience |-> Absent,
     constraints |-> AbsentList, kpi |-> Absent, size_preference |-> Absent]

\* the fallback intent of the except branch of intent_recognition_node
DefaultIntent ==
    [business_goal |-> "", target_audience |-> EmptyMap,
     constraints |-> ListOf(<<>>), kpi |-> DefaultKpi,
     size_preference |-> DefaultSize]

\* "if previous_intent:" : None and {} are both falsy
NoneIntent == [tag |-> "None", d |-> EmptyDict]
SomeIntent(d) == [tag |-> "dict", d |-> d]
IntentTruthy(p) == p.tag = "dict" /\ p.d # EmptyDict

\* -------------------------------------------------- collaborator payloads
\* One JSON object of a collaborator answer, over the keys the stages read.
EmptyObj ==
    [is_clear |-> Absent, business_goal |-> Absent, target_audience |-> Absent,
     constraints |-> AbsentList, kpi |-> Absent, size_preference |-> Absent,
     is_success |-> Absent, matched_features |-> AbsentList,
     strategy_detail |-> Absent, full_report |-> Absent, text |-> Absent]

\* ArkChat._get_mock_response, first branch (the prompt mentions the audience
\* selection): kpi, target_tiers, behavior_filters, size_preference and an
\* empty constraints list; none of the flags, goals or candidates.
MockObj ==
    [EmptyObj EXCEPT !.kpi = DefaultKpi, !.size_preference = DefaultSize,
                     !.constraints = ListOf(<<>>)]

\* A text is a sequence of segments:
\*   "prose"   text without braces that is no JSON value
\*   "obj"     one well-formed JSON object (its content is the text's obj)
\*   "junk"    a braced block that is not valid JSON, such as {oops}
\*   "partial" an object cut short: an opening brace, no closing brace
\*   "scalar"  a JSON value without braces, such as [1, 2] or 42
SegKinds == {"prose", "obj", "junk", "partial", "scalar"}
Opens == {"obj", "junk", "partial"}
Closes == {"obj", "junk"}

TextOf(segs, obj) == [segs |-> segs, obj |-> obj]
MockText == TextOf(<<"obj">>, MockObj)

\* json.loads(text): the whole text must be one JSON value
JsonLoads(segs) ==
    IF Len(segs) = 1 /\ segs[1] \in {"obj", "scalar"}
    THEN [ok |-> TRUE, isobj |-> segs[1] = "obj"]
    ELSE [ok |-> FALSE, isobj |-> FALSE]

FirstOpen(segs) ==
    IF \E i \in 1..Len(segs) : segs[i] \in Opens
    THEN CHOOSE i \in 1..Len(segs) :
           /\ segs[i] \in Opens
           /\ \A j \in 1..(i - 1) : segs[j] \notin Opens
    ELSE 0

LastClose(segs) ==
    IF \E i \in 1..Len(segs) : segs[i] \in Closes
    THEN CHOOSE i \in 1..Len(segs) :
           /\ segs[i] \in Closes
           /\ \A j \in (i + 1)..Len(segs) : segs[j] \notin Closes
    ELSE 0

\* re.search(r'\{.*\}', text, re.DOTALL): greedy, from the first opening
\* brace to the last closing brace after it.  The result is the matched
\* segment run, or <<>> when nothing matches.
BraceMatch(segs) ==
    LET a == FirstOpen(segs)
        b == LastClose(segs)
    IN IF a = 0 \/ b = 0 \/ b < a THEN <<>> ELSE SubSeq(segs, a, b)

\* nodes.py 136-146 / 351-360: json.loads, else the braced block, else
\* ValueError; a JSONDecodeError of the second json.loads propagates.
\* status: "obj" a dict, "scalar" a JSON value that is no dict, "raise".
ParseResponse(text) ==
    LET whole == JsonLoads(text.segs)
        m == BraceMatch(text.segs)
    IN IF whole.ok THEN (IF whole.isobj THEN "obj" ELSE "scalar")
       ELSE IF m = <<>> THEN "raise"
       ELSE IF JsonLoads(m).ok THEN "obj"
       ELSE "raise"

\* streaming_nodes.py 40-52: the braced block if it parses, else the dict
\* {"text": full_response}
\* The text itself is "" when nothing was delivered, else the token "llm".
TextObj(text) == [EmptyObj EXCEPT !.text = IF text.segs = <<>> THEN "" ELSE "llm"]
ParseStreamed(text) ==
    LET m == BraceMatch(text.segs)
    IN IF m # <<>> /\ JsonLoads(m).ok THEN text.obj ELSE TextObj(text)

\* ------------------------------------------------------- the collaborator
\* What the remote service does with one request:
\*   "error"  the request fails: service unavailable, HTTP error, timeout,
\*            or an answer without choices
\*   "none"   the answer carries no text (content null)
\*   "str"    the answer carries the text `text`
ServiceAnswer(out, text) == [out |-> out, text |-> text]
NoText == TextOf(<<>>, EmptyObj)

\* ArkChat.call: any failure is answered with the mock response; nothing is
\* raised and the service is not asked again.
ArkChat_call(ans) ==
    IF ans.out = "error" THEN ServiceAnswer("str", MockText) ELSE ans

\* What the remote service does with one streamed request:
\*   "complete" every delta of `text` is delivered, then the stream ends
\*   "fallback" the deltas of `text` are delivered, then the request fails
\*   "raise"    a delta that is no string is delivered after `text`
\* ArkChat.stream: on failure the mock response is streamed after whatever
\* was delivered.  The result is what the consumer accumulates and whether
\* its loop raised.
ArkChat_stream(ans) ==
    IF ans.out = "fallback"
    THEN [raised |-> FALSE, text |-> TextOf(ans.text.segs \o <<"obj">>, MockObj)]
    ELSE [raised |-> ans.out = "raise", text |-> ans.text]

\* stream_llm_with_reasoning: the final event after the deltas.  The text is
\* parsed only when the loop over the stream ended without raising.
stream_llm_with_reasoning(ans) ==
    LET s == ArkChat_stream(ans)
    IN IF s.raised THEN [type |-> "error", data |-> EmptyObj]
       ELSE [type |-> "result", data |-> ParseStreamed(s.text)]

\* ---------------------------------------------------- intent recognition
\* nodes.py 166-172: the intent is built from the answer alone, each key
\* defaulting to a fixed value.
BuildIntent(obj) ==
    [business_goal |-> Get(obj.business_goal, ""),
     target_audience |-> Get(obj.target_audience, EmptyMap),
     constraints |-> GetList(obj.constraints, ListOf(<<>>)),
     kpi |-> Get(obj.kpi, DefaultKpi),
     size_preference |-> Get(obj.size_preference, DefaultSize)]

\* nodes.py 163 / streaming_nodes.py 128: response.get("is_clear", True)
IntentStatusOf(obj) ==
    IF Truthy(Get(obj.is_clear, "true")) THEN "clear" ELSE "ambiguous"

IntentFallback == [user_intent |-> DefaultIntent, intent_status |-> "ambiguous"]

\* The prompt of intent_recognition_node: multi-turn mode and the baseline
\* JSON are used iff previous_intent is truthy.
IntentPrompt(previous_intent) ==
    [stage |-> "intent_recognition",
     multi_turn |-> IntentTruthy(previous_intent),
     baseline |-> IF IntentTruthy(previous_intent) THEN previous_intent.d
                  ELSE EmptyDict]

\* intent_recognition_node, given what llm.model.call returned.  The previous
\* intent reaches the prompt only; the update is computed from the answer.
intent_recognition_node(previous_intent, ret) ==
    IF ret.out = "none" THEN IntentFallback
    ELSE IF ParseResponse(ret.text) # "obj" THEN IntentFallback
    ELSE [user_intent |-> BuildIntent(ret.text.obj),
          intent_status |-> IntentStatusOf(ret.text.obj)]

\* intent_recognition_node_stream, given the final event of the stream
intent_recognition_node_stream(ev) ==
    IF ev.type = "error" THEN IntentFallback
    ELSE [user_intent |-> BuildIntent(ev.data),
          intent_status |-> IntentStatusOf(ev.data)]

\* ------------------------------------------------------------ rule values
\* Numbers are held in hundredths (0.85 is 85, 30 is 3000).  A string is its
\* sequence of characters.
Num(n) == [t |-> "num", n |-> n]
Str(s) == [t |-> "str", s |-> s]
Bool(b) == [t |-> "bool", b |-> b]
Lst(l) == [t |-> "list", l |-> l]
NoneV == [t |-> "null"]

Digits == {"0", "1", "2", "3", "4", "5", "6", "7", "8", "9"}
DigitVal(c) ==
    CASE c = "0" -> 0 [] c = "1" -> 1 [] c = "2" -> 2 [] c = "3" -> 3
      [] c = "4" -> 4 [] c = "5" -> 5 [] c = "6" -> 6 [] c = "7" -> 7
      [] c = "8" -> 8 [] c = "9" -> 9

\* the number of blanks of s from position i on
RECURSIVE Blanks(_, _)
Blanks(s, i) ==
    IF i <= Len(s) /\ s[i] = " " THEN 1 + Blanks(s, i + 1) ELSE 0

\* str.strip()
RECURSIVE LStrip(_)
LStrip(s) == IF s # <<>> /\ Head(s) = " " THEN LStrip(Tail(s)) ELSE s
RECURSIVE RStrip(_)
RStrip(s) ==
    IF s # <<>> /\ s[Len(s)] = " " THEN RStrip(SubSeq(s, 1, Len(s) - 1)) ELSE s
Strip(s) == RStrip(LStrip(s))

HasAt(s, i, w) ==
    /\ i + Len(w) - 1 <= Len(s)
    /\ \A j \in 1..Len(w) : s[i + j - 1] = w[j]

\* A variant of the separator pattern without the hyphen alternative.
SepLen_NoHyphen(s, i) ==
    IF Blanks(s, i) >= 1 /\ HasAt(s, i + Blanks(s, i), <<"a", "n", "d">>)
       /\ Blanks(s, i + Blanks(s, i) + 3) >= 1
    THEN Blanks(s, i) + 3 + Blanks(s, i + Blanks(s, i) + 3)
    ELSE IF HasAt(s, i + Blanks(s, i), <<",">>)
    THEN Blanks(s, i) + 1 + Blanks(s, i + Blanks(s, i) + 1)
    ELSE 0

\* The length of the match of  \s+and\s+ | \s*-\s* | \s*,\s*  at position i
\* of s, 0 when the pattern does not match there.  The alternatives are
\* tried in this order and each blank run is greedy.
SepLen(s, i) ==
    LET k == Blanks(s, i)
    IN IF k >= 1 /\ HasAt(s, i + k, <<"a", "n", "d">>) /\ Blanks(s, i + k + 3) >= 1
       THEN k + 3 + Blanks(s, i + k + 3)
       ELSE IF HasAt(s, i + k, <<"-">>) THEN k + 1 + Blanks(s, i + k + 1)
       ELSE IF HasAt(s, i + k, <<",">>) THEN k + 1 + Blanks(s, i + k + 1)
       ELSE 0

\* re.split(pattern, s): the pieces between the matches, scanning from the left
RECURSIVE SplitFrom(_, _, _, _)
SplitFrom(s, i, cur, acc) ==
    IF i > Len(s) THEN Append(acc, cur)
    ELSE LET m == SepLen(s, i)
         IN IF m > 0 THEN SplitFrom(s, i + m, <<>>, Append(acc, cur))
            ELSE SplitFrom(s, i + 1, Append(cur, s[i]), acc)
ReSplit(s) == SplitFrom(s, 1, <<>>, <<>>)

RECURSIVE DigitsVal(_)
DigitsVal(s) ==
    IF s = <<>> THEN 0 ELSE 10 * DigitsVal(SubSeq(s, 1, Len(s) - 1)) + DigitVal(s[Len(s)])
AllDigits(s) == \A i \in 1..Len(s) : s[i] \in Digits

\* The sign and the unsigned body of a stripped numeral
SignOf(s) == IF s # <<>> /\ Head(s) = "-" THEN -1 ELSE 1
Unsigned(s) == IF s # <<>> /\ Head(s) \in {"-", "+"} THEN Tail(s) ELSE s
NotANumber == [ok |-> FALSE, n |-> 0]

\* int(s): blanks around, an optional sign, at least one digit
IntOfBody(sign, body) ==
    IF body # <<>> /\ AllDigits(body)
    THEN [ok |-> TRUE, n |-> sign * 100 * DigitsVal(body)]
    ELSE NotANumber
IntOfStripped(s) == IntOfBody(SignOf(s), Unsigned(s))
ParseInt(s0) == IntOfStripped(Strip(s0))

\* float(s) for the decimal forms: digits, one point, up to two decimals
FracVal(fp) ==
    IF Len(fp) = 0 THEN 0 ELSE IF Len(fp) = 1 THEN 10 * DigitsVal(fp) ELSE DigitsVal(fp)
FloatOfParts(sign, ip, fp) ==
    IF AllDigits(ip) /\ AllDigits(fp) /\ Len(ip) + Len(fp) >= 1 /\ Len(fp) <= 2
    THEN [ok |-> TRUE, n |-> sign * (100 * DigitsVal(ip) + FracVal(fp))]
    ELSE NotANumber
FloatAt(sign, body, d) ==
    FloatOfParts(sign, SubSeq(body, 1, d - 1), SubSeq(body, d + 1, Len(body)))
FloatOfDots(sign, body, dots) ==
    IF Cardinality(dots) = 1 THEN FloatAt(sign, body, CHOOSE i \in dots : TRUE)
    ELSE NotANumber
FloatOfBody(sign, body) ==
    FloatOfDots(sign, body, {i \in 1..Len(body) : body[i] = "."})
FloatOfStripped(s) == FloatOfBody(SignOf(s), Unsigned(s))
ParseFloat(s0) == FloatOfStripped(Strip(s0))

\* float(p) if '.' in p else int(p)
ParseNumber(s) ==
    IF \E i \in 1..Len(s) : s[i] = "." THEN ParseFloat(s) ELSE ParseInt(s)

\* value.lower() in ['true', '1', 'yes']
Lower(c) ==
    CASE c = "T" -> "t" [] c = "Y" -> "y" [] c = "R" -> "r" [] c = "U" -> "u"
      [] c = "E" -> "e" [] c = "S" -> "s" [] OTHER -> c
LowerStr(s) == [i \in 1..Len(s) |-> Lower(s[i])]
TruthyTokens == {<<"t", "r", "u", "e">>, <<"1">>, <<"y", "e", "s">>}

\* ------------------------------------------------------------ population
VVIP == <<"V", "V", "I", "P">>
VIP == <<"V", "I", "P">>
Member == <<"M", "e", "m", "b", "e", "r">>

\* mock_users.py: the ten records, with the attributes the rules of the model
\* refer to.  email_open_rate is in hundredths, cart_items_pending is the
\* number of items of the list.
User(id, tier, score, days, overseas, open_rate, loyalty, cart) ==
    [id |-> id, tier |-> tier, score |-> score, last_purchase_days |-> days,
     has_overseas_purchase |-> overseas, email_open_rate |-> open_rate,
     brand_loyalty_score |-> loyalty, cart_items_pending |-> cart]

MOCK_USERS_WITH_FEATURES ==
    << User(1, VVIP, 98, 8, TRUE, 85, 95, 2),
       User(2, VIP, 95, 15, TRUE, 78, 82, 1),
       User(3, VVIP, 92, 22, TRUE, 65, 88, 0),
       User(4, Member, 88, 18, FALSE, 72, 68, 2),
       User(5, VIP, 85, 45, TRUE, 55, 75, 0),
       User(6, VVIP, 93, 6, TRUE, 82, 92, 1),
       User(7, VIP, 89, 25, TRUE, 75, 80, 2),
       User(8, Member, 82, 35, FALSE, 68, 62, 1),
       User(9, VVIP, 96, 5, TRUE, 88, 98, 1),
       User(10, VIP, 91, 28, FALSE, 80, 78, 0) >>

UserIds == [i \in 1..Len(MOCK_USERS_WITH_FEATURES) |-> i]

\* u.get(name, default), as a tagged value
UserAttr(u, name, default) ==
    CASE name = "tier" -> Str(u.tier)
      [] name = "last_purchase_days" -> Num(100 * u.last_purchase_days)
      [] name = "brand_loyalty_score" -> Num(100 * u.brand_loyalty_score)
      [] name = "email_open_rate" -> Num(u.email_open_rate)
      [] name = "has_overseas_purchase" -> Bool(u.has_overseas_purchase)
      [] OTHER -> default
UserGet(id, name, default) == UserAttr(MOCK_USERS_WITH_FEATURES[id], name, default)

\* feature_metadata.py: the type the catalog declares for a feature name;
\* "" for a name that is no key of the catalog.
FEATURE_METADATA(name) ==
    CASE name \in {"tier"} -> "categorical"
      [] name \in {"last_purchase_days", "brand_loyalty_score", "email_open_rate",
                   "category_browsing_handbag"} -> "numeric"
      [] name \in {"has_overseas_purchase"} -> "boolean"
      [] name \in {"cart_items_pending"} -> "list"
      [] OTHER -> ""

\* feature_metadata.py: the operators the catalog declares valid for a
\* feature name; none for a name that is no key of the catalog.
valid_operators(name) ==
    CASE FEATURE_METADATA(name) = "categorical" -> {"==", "in"}
      [] FEATURE_METADATA(name) = "numeric" -> {">", ">=", "<", "<=", "==", "between"}
      [] FEATURE_METADATA(name) = "boolean" -> {"=="}
      [] FEATURE_METADATA(name) = "list" -> {"contains", "not_empty", "empty"}
      [] OTHER -> {}

\* ------------------------------------------------------ Python comparisons
IsNumber(v) == v.t \in {"num", "bool"}
NumericOf(v) == IF v.t = "num" THEN v.n ELSE IF v.b THEN 100 ELSE 0

\* a == b
PyEq(a, b) ==
    IF IsNumber(a) /\ IsNumber(b) THEN NumericOf(a) = NumericOf(b)
    ELSE IF a.t = "str" /\ b.t = "str" THEN a.s = b.s
    ELSE a.t = "null" /\ b.t = "null"

\* x <op> v for two numbers
PyCmp(op, x, v) ==
    CASE op = ">" -> x > v
      [] op = ">=" -> x >= v
      [] op = "<" -> x < v
      [] op = "<=" -> x <= v

Keep(ids, Test(_)) == SelectSeq(ids, Test)
Applied(ids) == [applied |-> TRUE, users |-> ids]
Skipped(ids) == [applied |-> FALSE, users |-> ids]

\* nodes.py 593-594, 603-604, 615: a textual value is converted, any other
\* value is taken as it is
Converted(v) == IF v.t = "str" THEN ParseNumber(v.s) ELSE [ok |-> TRUE, n |-> 0]
ValueOf(v, p) == IF v.t = "str" THEN Num(p.n) ELSE v

\* nodes.py 611: value[0] <= u.get(name, 0) <= value[1] over the candidates.
\* Comparing with an endpoint that is no number raises (the rule is then
\* skipped); the upper endpoint is only compared for a record that passes
\* the lower one.
LowerOk(x, lo) == NumericOf(lo) <= x
InRange(x, lo, hi) == LowerOk(x, lo) /\ IsNumber(hi) /\ x <= NumericOf(hi)
BetweenFilter(name, lo, hi, ids) ==
    IF /\ ids # <<>>
       /\ \/ ~IsNumber(lo)
          \/ /\ ~IsNumber(hi)
             /\ \E i \in 1..Len(ids) : LowerOk(UserGet(ids[i], name, Num(0)).n, lo)
    THEN Skipped(ids)
    ELSE IF ~IsNumber(lo) THEN Applied(<<>>)
    ELSE Applied(Keep(ids, LAMBDA id : InRange(UserGet(id, name, Num(0)).n, lo, hi)))
BetweenPair(name, a, b, pa, pb, ids) ==
    IF pa.ok /\ pb.ok THEN BetweenFilter(name, ValueOf(a, pa), ValueOf(b, pb), ids)
    ELSE Skipped(ids)
BetweenParts(name, parts, ids) ==
    IF Len(parts) = 2
    THEN BetweenPair(name, Str(parts[1]), Str(parts[2]),
                     ParseNumber(parts[1]), ParseNumber(parts[2]), ids)
    ELSE Skipped(ids)

\* A variant of the between rule that forgets the upper endpoint.
NoUpper(name, lo, ids) ==
    Applied(Keep(ids, LAMBDA id : LowerOk(UserGet(id, name, Num(0)).n, lo)))
NoUpperParts(name, parts, p, ids) ==
    IF p.ok THEN NoUpper(name, Num(p.n), ids) ELSE Skipped(ids)
ApplyBetween_NoUpper(name, value, ids) ==
    IF value.t = "str" /\ Len(ReSplit(Strip(value.s))) = 2
    THEN NoUpperParts(name, ReSplit(Strip(value.s)),
                      ParseNumber(ReSplit(Strip(value.s))[1]), ids)
    ELSE Skipped(ids)

\* nodes.py 585-611: a numeric between rule
ApplyBetween(name, value, ids) ==
    IF value.t = "str" THEN BetweenParts(name, ReSplit(Strip(value.s)), ids)
    ELSE IF value.t = "list" /\ Len(value.l) = 2
    THEN BetweenPair(name, value.l[1], value.l[2],
                     Converted(value.l[1]), Converted(value.l[2]), ids)
    ELSE Skipped(ids)

\* nodes.py 617-627: the comparison of the attribute with the converted value
ScalarFilter(name, operator, v, ids) ==
    IF operator \in {">", ">=", "<", "<="}
    THEN IF ids = <<>> THEN Applied(ids)
         ELSE IF ~IsNumber(v) THEN Skipped(ids)
         ELSE Applied(Keep(ids, LAMBDA id :
                        PyCmp(operator, UserGet(id, name, Num(0)).n, NumericOf(v))))
    ELSE IF operator = "=="
    THEN Applied(Keep(ids, LAMBDA id : PyEq(UserGet(id, name, Num(0)), v)))
    ELSE Skipped(ids)
ScalarConverted(name, operator, value, p, ids) ==
    IF ~p.ok THEN Skipped(ids) ELSE ScalarFilter(name, operator, ValueOf(value, p), ids)

\* nodes.py 613-627: the other numeric operators
ApplyScalar(name, operator, value, ids) ==
    ScalarConverted(name, operator, value, Converted(value), ids)

\* nodes.py 629-637
IsIn(a, value) ==
    IF value.t = "list" THEN \E i \in 1..Len(value.l) : PyEq(a, value.l[i])
    ELSE PyEq(a, value)
ApplyCategorical(name, operator, value, ids) ==
    IF operator = "=="
    THEN Applied(Keep(ids, LAMBDA id : PyEq(UserGet(id, name, NoneV), value)))
    ELSE IF operator = "in"
    THEN Applied(Keep(ids, LAMBDA id : IsIn(UserGet(id, name, NoneV), value)))
    ELSE Skipped(ids)

\* nodes.py 639-643: whatever the operator, the attribute must equal the value
ApplyBoolean(name, value, ids) ==
    LET v == IF value.t = "str" THEN Bool(LowerStr(value.s) \in TruthyTokens)
             ELSE value
    IN Applied(Keep(ids, LAMBDA id : PyEq(UserGet(id, name, NoneV), v)))

\* nodes.py 576-648: one pass of the loop body
ApplyRule(rule, ids) ==
    IF rule.feature_type = "numeric"
    THEN IF rule.operator = "between"
         THEN ApplyBetween(rule.feature_name, rule.value, ids)
         ELSE ApplyScalar(rule.feature_name, rule.operator, rule.value, ids)
    ELSE IF rule.feature_type = "categorical"
    THEN ApplyCategorical(rule.feature_name, rule.operator, rule.value, ids)
    ELSE IF rule.feature_type = "boolean"
    THEN ApplyBoolean(rule.feature_name, rule.value, ids)
    ELSE Skipped(ids)

\* nodes.py 572-648: the rules are applied in order to the whole population.
\* `applied` tells, rule by rule, whether the rule filtered the candidates.
RECURSIVE FilterFrom(_, _, _)
FilterRest(rules, r, applied) ==
    FilterFrom(Tail(rules), r.users, Append(applied, r.applied))
FilterFrom(rules, ids, applied) ==
    IF rules = <<>> THEN [users |-> ids, applied |-> applied]
    ELSE FilterRest(rules, ApplyRule(Head(rules), ids), applied)
FilterUsers(rules) == FilterFrom(rules, UserIds, <<>>)

\* ------------------------------------------------------------ the metrics
\* mock_users.py 827-831, and the default of TIER_AVG_ORDER_VALUE.get
TIER_AVG_ORDER_VALUE(tier) ==
    CASE tier = VVIP -> 45000 [] tier = VIP -> 22000 [] tier = Member -> 12000
      [] OTHER -> 18000

RECURSIVE SumLoyalty(_)
SumLoyalty(ids) ==
    IF ids = <<>> THEN 0
    ELSE MOCK_USERS_WITH_FEATURES[Head(ids)].brand_loyalty_score + SumLoyalty(Tail(ids))

RECURSIVE SumOrders(_)
SumOrders(ids) ==
    IF ids = <<>> THEN 0
    ELSE TIER_AVG_ORDER_VALUE(MOCK_USERS_WITH_FEATURES[Head(ids)].tier) + SumOrders(Tail(ids))

\* sorted(users, key=score, reverse=True): stable, the best score first
Scores(ids) == [i \in 1..Len(ids) |-> MOCK_USERS_WITH_FEATURES[ids[i]].score]
FirstBest(sc) ==
    CHOOSE i \in 1..Len(sc) :
        /\ \A j \in 1..Len(sc) : sc[j] <= sc[i]
        /\ \A j \in 1..(i - 1) : sc[j] < sc[i]
Without(ids, b) == SubSeq(ids, 1, b - 1) \o SubSeq(ids, b + 1, Len(ids))
RECURSIVE SortByScore(_)
SortedFrom(ids, b) == <<ids[b]>> \o SortByScore(Without(ids, b))
SortByScore(ids) ==
    IF ids = <<>> THEN <<>> ELSE SortedFrom(ids, FirstBest(Scores(ids)))

TopN == 5
\* A variant that does not cut the list.
FirstN_Everything(seq, n) == seq
FirstN(seq, n) == SubSeq(seq, 1, IF Len(seq) < n THEN Len(seq) ELSE n)

Ratio(num, den) == [num |-> num, den |-> den]
Zero == Ratio(0, 1)

\* nodes.py 650-708.  A ratio num/den stands for the quotient the code
\* computes:
\*   conversion_rate   = 0.05 * (1 + avg_loyalty / 100)
\*                     = (100 * size + sum_loyalty) / (2000 * size)
\*   estimated_revenue = sum over the tiers of count * conversion_rate * value
\*   roi               = revenue / (revenue * 0.2), 5 for a positive revenue
Tiers(ids) == [i \in 1..Len(ids) |-> MOCK_USERS_WITH_FEATURES[ids[i]].tier]
CountBy(tiers) ==
    [t \in {tiers[i] : i \in 1..Len(tiers)} |-> Cardinality({i \in 1..Len(tiers) : tiers[i] = t})]
MetricsOf(size, loyalty, orders, dist, top) ==
    [set |-> TRUE, audience_size |-> size,
     conversion_rate |-> Ratio(100 * size + loyalty, 2000 * size),
     estimated_revenue |-> Ratio((100 * size + loyalty) * orders, 2000 * size),
     roi |-> IF (100 * size + loyalty) * orders > 0 THEN 5 ELSE 0,
     quality_score |-> Ratio(loyalty, size),
     tier_distribution |-> dist,
     top_users |-> top]
Metrics_NoZeroBranch(ids) ==
    MetricsOf(Len(ids), SumLoyalty(ids), SumOrders(ids), CountBy(Tiers(ids)),
              FirstN(SortByScore(ids), TopN))
Metrics(ids) ==
    IF ids # <<>>
    THEN MetricsOf(Len(ids), SumLoyalty(ids), SumOrders(ids), CountBy(Tiers(ids)),
                   FirstN(SortByScore(ids), TopN))
    ELSE [set |-> TRUE, audience_size |-> 0, conversion_rate |-> Zero,
          estimated_revenue |-> Zero, roi |-> 0, quality_score |-> Zero,
          tier_distribution |-> [t \in {} |-> 0], top_users |-> <<>>]

\* state.get("prediction_result", {}) of a state without the key
NoPrediction ==
    [set |-> FALSE, audience_size |-> 0, conversion_rate |-> Zero,
     estimated_revenue |-> Zero, roi |-> 0, quality_score |-> Zero,
     tier_distribution |-> [t \in {} |-> 0], top_users |-> <<>>]

\* impact_prediction_node: the audience and its metrics
Predicted(f) ==
    [audience |-> f.users, applied |-> f.applied,
     prediction_result |-> Metrics(f.users)]
impact_prediction_node(matched_features) == Predicted(FilterUsers(matched_features))

\* -------------------------------------------------------- feature matching
\* One candidate of the collaborator's matched_features list.  An entry that
\* is no JSON object has isdict FALSE.
Candidate(name, operator, value, description) ==
    [isdict |-> TRUE, feature_name |-> name, operator |-> operator,
     value |-> value, description |-> description]
NoDict == [isdict |-> FALSE, feature_name |-> Absent, operator |-> Absent,
           value |-> NoneV, description |-> Absent]

Rule(name, type, operator, value, description) ==
    [feature_name |-> name, feature_type |-> type, operator |-> operator,
     value |-> value, description |-> description]

\* nodes.py 369-379: the candidates whose name is a key of the catalog, in
\* their order, typed by the catalog; the operator is not looked at.
RECURSIVE KeepKnown(_)
KeepKnown_All(raw) ==
    [i \in 1..Len(raw) |->
        Rule(raw[i].feature_name, FEATURE_METADATA(raw[i].feature_name),
             Get(raw[i].operator, "=="), raw[i].value, Get(raw[i].description, ""))]
KeepKnown(raw) ==
    IF raw = <<>> THEN <<>>
    ELSE LET feat == Head(raw)
             type == FEATURE_METADATA(feat.feature_name)
         IN IF type # ""
            THEN <<Rule(feat.feature_name, type, Get(feat.operator, "=="),
                        feat.value, Get(feat.description, ""))>> \o KeepKnown(Tail(raw))
            ELSE KeepKnown(Tail(raw))

MatchFallback == [matched_features |-> <<>>, match_status |-> "needs_refinement"]

\* nodes.py 364-392 / streaming_nodes.py 277-318: from the parsed payload to
\* the rule list and the status.  Iterating a null list, or reading a
\* candidate that is no object, raises into the except branch.
MatchFrom(obj) ==
    LET raw == GetList(obj.matched_features, ListOf(<<>>))
    IN IF raw.k = "null" \/ \E i \in 1..Len(raw.v) : ~raw.v[i].isdict
       THEN MatchFallback
       ELSE [matched_features |-> KeepKnown(raw.v),
             match_status |-> IF Truthy(Get(obj.is_success, "true"))
                              THEN "success" ELSE "needs_refinement"]

feature_matching_node(ret) ==
    IF ret.out = "none" THEN MatchFallback
    ELSE IF ParseResponse(ret.text) # "obj" THEN MatchFallback
    ELSE MatchFrom(ret.text.obj)

feature_matching_node_stream(ev) ==
    IF ev.type = "error" THEN MatchFallback ELSE MatchFrom(ev.data)

\* ------------------------------------------------------------ text stages
\* The texts a stage can hand on are tokens: "llm" a non-empty text of the
\* service, "mock" the mock response, "" the empty text, and the fixed texts.
ClarificationFallback == "clarification_fallback"
ModificationFallback == "modification_fallback"
StrategyFallback == "strategy_fallback"
StrategyPending == "strategy_pending"
FallbackReport == "fallback_report"

\* response.strip() of what ArkChat.call returned; None has no strip()
StripText(ret, fallback) ==
    IF ret.out = "none" THEN fallback
    ELSE IF ret.text.segs = <<>> THEN ""
    ELSE IF ret.text = MockText THEN "mock"
    ELSE "llm"

ask_clarification_node(ret) == StripText(ret, ClarificationFallback)
request_modification_node(ret) == StripText(ret, ModificationFallback)
strategy_generation_node(ret) == StripText(ret, StrategyFallback)
final_analysis_node(ret) == StripText(ret, FallbackReport)

\* strategy_generation_node_stream: the strategy_explanation of its
\* node_complete event; Absent when the stage emits no node_complete (the
\* error event of the stream has no branch).
strategy_generation_node_stream(ev) ==
    IF ev.type = "error" THEN Absent
    ELSE IF Truthy(Get(ev.data.strategy_detail, "")) THEN ev.data.strategy_detail
    ELSE Get(ev.data.text, StrategyPending)

\* final_analysis_node_stream: the final_response of its node_complete event
final_analysis_node_stream(ev) ==
    LET full_report == IF Truthy(Get(ev.data.full_report, ""))
                       THEN ev.data.full_report ELSE Get(ev.data.text, "")
    IN IF ev.type = "error" THEN Absent
       ELSE IF Truthy(full_report) THEN full_report
       ELSE FallbackReport

\* ---------------------------------------------------------- session store
\* ConversationTurn; the user input and the timestamp are left out.
ConversationTurn(intent, audience, metrics, response) ==
    [intent |-> intent, audience |-> audience, metrics |-> metrics,
     response |-> response]

EmptyContext ==
    [set |-> FALSE, latest_intent |-> EmptyDict, latest_audience |-> <<>>,
     latest_metrics |-> NoPrediction, total_turns |-> 0]

\* Session.__init__
NewSession == [turns |-> <<>>, current_context |-> EmptyContext]

\* A variant that starts the turn list over with every turn.
add_turn_Forgetful(session, turn) ==
    [turns |-> <<turn>>,
     current_context |->
        [set |-> TRUE, latest_intent |-> turn.intent,
         latest_audience |-> turn.audience, latest_metrics |-> turn.metrics,
         total_turns |-> 1]]

\* Session.add_turn
add_turn(session, turn) ==
    [turns |-> Append(session.turns, turn),
     current_context |->
        [set |-> TRUE, latest_intent |-> turn.intent,
         latest_audience |-> turn.audience, latest_metrics |-> turn.metrics,
         total_turns |-> Len(session.turns) + 1]]

\* SessionManager.get_or_create_session: the session of a known id, else a
\* new session.  Session ids are 1, 2, ... in the order of creation; 0 stands
\* for no id and for an id the store does not know.
get_or_create_session(store, session_id) ==
    IF session_id \in 1..Len(store)
    THEN [store |-> store, id |-> session_id]
    ELSE [store |-> Append(store, NewSession), id |-> Len(store) + 1]

\* turn.intent.get("constraints", []) over all turns, concatenated
RECURSIVE AllConstraints(_)
AllConstraints(turns) ==
    IF turns = <<>> THEN <<>>
    ELSE GetList(Head(turns).intent.constraints, ListOf(<<>>)).v
         \o AllConstraints(Tail(turns))

Range(seq) == {seq[i] : i \in 1..Len(seq)}
IsInjective(seq) == \A i, j \in 1..Len(seq) : seq[i] = seq[j] => i = j

\* list(set(xs)): the distinct elements, in the iteration order of a set of
\* strings, which differs from process to process: any order may come out.
ListOfSet(xs) ==
    {seq \in UNION {[1..n -> Range(xs)] : n \in 0..Len(xs)} :
        Range(seq) = Range(xs) /\ IsInjective(seq)}

\* ------------------------------------------------------------ agent state
NoIntent == [tag |-> "absent", d |-> EmptyDict]
NoFeatures == [k |-> "absent", v |-> <<>>]

\* graph.py 170-173 / 246-249: only user_input and messages are set
InitialState ==
    [previous_intent |-> NoIntent, user_intent |-> NoIntent,
     intent_status |-> Absent, matched_features |-> NoFeatures,
     match_status |-> Absent, clarification_question |-> Absent,
     modification_request |-> Absent, strategy_explanation |-> Absent,
     prediction_result |-> NoPrediction, final_response |-> Absent]

\* routes.py 94-100 / 223-229: the initial state of /analysis and of
\* /analysis/stream
InitialStateV1(session) ==
    [InitialState EXCEPT !.previous_intent =
        IF session.turns # <<>>
        THEN SomeIntent(session.current_context.latest_intent)
        ELSE NoneIntent]

\* A variant of the first routing that goes on whatever the status.
route_after_intent_recognition_Always(state) == "feature_matching"

\* graph.py 25-39
route_after_intent_recognition(state) ==
    IF Get(state.intent_status, "ambiguous") = "ambiguous"
    THEN "ask_clarification" ELSE "feature_matching"

\* graph.py 42-56
route_after_feature_matching(state) ==
    IF Get(state.match_status, "needs_refinement") = "needs_refinement"
    THEN "request_modification" ELSE "strategy_generation"

Entries == {"analysis", "analysis_stream", "analysis_v2", "analysis_v2_stream"}
\* the entry whose stages consume the collaborator's stream
Streamed(e) == e = "analysis_v2_stream"
\* the entries served by the compiled graph
OnGraph(e) == e # "analysis_v2_stream"

\* ------------------------------------------------- collaborator answers
\* The payloads and texts the collaborator is let to answer with.
FlagValues == {Absent, "true", "false", Null}

I_first == [EmptyObj EXCEPT !.business_goal = "g1", !.kpi = "revenue",
                            !.constraints = ListOf(<<"c1">>)]
I_next == [EmptyObj EXCEPT !.constraints = ListOf(<<"c2">>)]
I_dup == [EmptyObj EXCEPT !.business_goal = "g2",
                          !.constraints = ListOf(<<"c1", "c1">>)]
I_badkpi == [EmptyObj EXCEPT !.kpi = Null]

IntentObjs ==
    {[I_first EXCEPT !.is_clear = f] : f \in FlagValues}
    \cup {[o EXCEPT !.is_clear = f] : o \in {EmptyObj, I_next, I_dup, I_badkpi},
                                      f \in {Absent, "false"}}

\* texts that hold no JSON object the stages can read
BrokenTexts ==
    {TextOf(<<"prose">>, EmptyObj), TextOf(<<"junk">>, EmptyObj),
     TextOf(<<"scalar">>, EmptyObj), TextOf(<<"partial">>, EmptyObj)}

IntentTexts ==
    {TextOf(<<"obj">>, o) : o \in IntentObjs}
    \cup {TextOf(<<"prose", "obj">>, I_first), TextOf(<<"obj", "prose", "obj">>, I_first)}
    \cup BrokenTexts

C_tier == Candidate("tier", "==", Str(VVIP), "d")
C_unknown == Candidate("shoe_size", ">", Num(4000), "d")
C_days == Candidate("last_purchase_days", "between", Str(<<"a", "b", "c">>), Absent)
C_nullop == Candidate("tier", Null, Str(VIP), "d")
C_cart == Candidate("cart_items_pending", "empty", NoneV, "d")
C_badop == Candidate("tier", "between", Str(VIP), "d")
C_nobody == Candidate("last_purchase_days", ">", Num(9000), "d")

MatchObjs ==
    {[EmptyObj EXCEPT !.matched_features = l] :
        l \in {AbsentList, NullList, ListOf(<<C_tier>>), ListOf(<<C_unknown, C_days>>),
               ListOf(<<NoDict>>), ListOf(<<C_nullop>>), ListOf(<<C_cart>>),
               ListOf(<<C_badop>>), ListOf(<<C_tier, C_nobody>>)}}
    \cup {[EmptyObj EXCEPT !.matched_features = l, !.is_success = f] :
            l \in {ListOf(<<C_tier>>), ListOf(<<C_unknown, C_days>>)}, f \in FlagValues}

MatchTexts ==
    {TextOf(<<"obj">>, o) : o \in MatchObjs}
    \cup {TextOf(<<"prose">>, EmptyObj), TextOf(<<"junk">>, EmptyObj)}

O_strategy == [EmptyObj EXCEPT !.strategy_detail = "llm"]
O_report == [EmptyObj EXCEPT !.full_report = "llm"]
PlainTexts == {TextOf(<<"prose">>, EmptyObj), TextOf(<<>>, EmptyObj)}

\* what the service may do with a request whose answers are `texts`
CallAnswers(texts) ==
    {ServiceAnswer("str", t) : t \in texts}
    \cup {ServiceAnswer("none", NoText), ServiceAnswer("error", NoText)}

StreamAnswers(texts) ==
    {ServiceAnswer("complete", t) : t \in texts}
    \cup {ServiceAnswer("fallback", t) :
            t \in {NoText, TextOf(<<"prose">>, EmptyObj), TextOf(<<"partial">>, EmptyObj)}}
    \cup {ServiceAnswer("raise", NoText)}

Answers(e, texts) == IF Streamed(e) THEN StreamAnswers(texts) ELSE CallAnswers(texts)

\* ============================================================ the service
VARIABLES
    sessions,     \* SessionManager._sessions, by session id
    resolved,     \* per session: the intents its stored turns resolved
    turns_done,   \* turns handled so far
    pc,           \* "idle", the stage the turn in flight runs next, "respond"
    entry,        \* the entry point of the turn in flight
    sid,          \* its session
    state,        \* its AgentState
    trace,        \* the stages it ran, in order
    prompt,       \* what its intent recognition put into the prompt
    reply,        \* the collaborator's answer to the stage that ran last
    result,       \* how the last handler ended
    consolidated, \* the last answer of Session.get_consolidated_context
    ev_rules,     \* evaluator runs: the rule list
    ev_out,       \* evaluator runs: what impact_prediction_node computed
    ev_case,      \* evaluator runs: how the rule list was drawn
    stream,       \* stream runs: one run of stream_llm_with_reasoning
    manager,      \* server runs: the SessionManager
    handlers,     \* server runs: the request handlers in flight
    last_analysis_result, \* server runs: routes._last_analysis_result
    last_op,      \* server runs: the operation that ran last
    twin,         \* replay runs: two runs of the turns, fed the same answers
    calc,         \* calculator runs: one call of the MetricsCalculator
    sse           \* event runs: the event generator of /analysis/v2/stream

vars == <<sessions, resolved, turns_done, pc, entry, sid, state, trace, prompt,
          reply, result, consolidated, ev_rules, ev_out, ev_case, stream,
          manager, handlers, last_analysis_result, last_op, twin, calc, sse>>
turnVars == <<pc, entry, sid, state, trace, prompt, reply, result>>
evalVars == <<ev_rules, ev_out, ev_case>>
serverVars == <<manager, handlers, last_analysis_result, last_op>>
offlineVars == <<evalVars, stream, serverVars, twin, calc, sse>>

NoReply == [stage |-> "none", ans |-> ServiceAnswer("none", NoText)]
NoResult == [kind |-> "none", status |-> "", response |-> "", saved |-> FALSE]
NoPrompt == [stage |-> "none", multi_turn |-> FALSE, baseline |-> EmptyDict]
NoConsolidated == [id |-> 0, constraints |-> <<>>]
Numeral(s, n) == [s |-> s, n |-> n]
NoCase == [kind |-> "none", a |-> Numeral(<<>>, 0), b |-> Numeral(<<>>, 0)]
NoOut == [done |-> FALSE, runs |-> 0, audience |-> <<>>, applied |-> <<>>,
          prediction_result |-> NoPrediction]
NoEvent == [type |-> "none", data |-> EmptyObj]
NoStream == [phase |-> "none", full_response |-> NoText, completed |-> FALSE,
             failed |-> FALSE, parses |-> 0, event |-> NoEvent]
NoTwin == [kind |-> "none"]
NoCalc == [call |-> "none"]
NoSse == [pc |-> "none"]
NoId == 0
\* no health report
NoHealth ==
    [status |-> "none", llm_manager |-> "none", agent_graph |-> "none",
     session_manager |-> "none", reports_active_sessions |-> FALSE, active_sessions |-> 0]
NoOp ==
    [kind |-> "none", old |-> NoId, existed |-> FALSE, new |-> NoId, served |-> NoId,
     health |-> NoHealth]
\* SessionManager.__init__, no handler started, nothing cached
ServerStart ==
    /\ manager = [live |-> {}, objects |-> <<>>]
    /\ handlers = <<>>
    /\ last_analysis_result = NoId
    /\ last_op = NoOp

Idle ==
    /\ pc = "idle" /\ entry = "none" /\ sid = 0 /\ state = InitialState
    /\ trace = <<>> /\ prompt = NoPrompt /\ reply = NoReply /\ result = NoResult

Init ==
    /\ sessions = <<>> /\ resolved = <<>> /\ turns_done = 0
    /\ Idle
    /\ consolidated = NoConsolidated
    /\ ev_rules = <<>> /\ ev_out = NoOut /\ ev_case = NoCase
    /\ stream = NoStream /\ ServerStart /\ twin = NoTwin /\ calc = NoCalc /\ sse = NoSse

\* A request arrives at one of the four entry points, with the id of a
\* session of the store or without one.  No other turn is in flight.
StartTurn(e, session_id) ==
    /\ pc = "idle" /\ turns_done < MaxTurns
    /\ session_id \in 0..Len(sessions)
    /\ session_id = 0 => Len(sessions) < MaxSessions
    /\ LET g == get_or_create_session(sessions, session_id)
       IN /\ sessions' = g.store
          /\ resolved' = IF g.id > Len(resolved) THEN Append(resolved, <<>>) ELSE resolved
          /\ sid' = g.id
          /\ state' = IF e \in {"analysis", "analysis_stream"}
                      THEN InitialStateV1(g.store[g.id]) ELSE InitialState
    /\ entry' = e /\ pc' = "intent_recognition"
    /\ trace' = <<>> /\ prompt' = NoPrompt /\ reply' = NoReply /\ result' = NoResult
    /\ consolidated' = NoConsolidated
    /\ UNCHANGED <<turns_done, offlineVars>>

Ran(stage, ans) ==
    /\ trace' = Append(trace, stage)
    /\ reply' = [stage |-> stage, ans |-> ans]
    /\ UNCHANGED <<sessions, resolved, turns_done, entry, sid, result, consolidated,
                   offlineVars>>

\* state.update(result) with the result of a stage
UpdateIntent(st, out) ==
    [st EXCEPT !.user_intent = SomeIntent(out.user_intent),
               !.intent_status = out.intent_status]
UpdateMatch(st, out) ==
    [st EXCEPT !.matched_features = ListOf(out.matched_features),
               !.match_status = out.match_status]

IntentRecognition ==
    /\ pc = "intent_recognition"
    /\ \E ans \in Answers(entry, IntentTexts) :
         /\ state' = UpdateIntent(state,
                IF Streamed(entry)
                THEN intent_recognition_node_stream(stream_llm_with_reasoning(ans))
                ELSE intent_recognition_node(state.previous_intent, ArkChat_call(ans)))
         /\ pc' = route_after_intent_recognition(state')
         /\ prompt' = IF Streamed(entry) THEN IntentPrompt(NoIntent)
                      ELSE IntentPrompt(state.previous_intent)
         /\ Ran("intent_recognition", ans)

AskClarification ==
    /\ pc = "ask_clarification"
    /\ \E ans \in CallAnswers(PlainTexts) :
         LET q == ask_clarification_node(ArkChat_call(ans))
         IN /\ state' = [state EXCEPT !.clarification_question = q,
                                      !.final_response = q]
            /\ pc' = "respond"
            /\ prompt' = prompt
            /\ Ran("ask_clarification", ans)

FeatureMatching ==
    /\ pc = "feature_matching"
    /\ \E ans \in Answers(entry, MatchTexts) :
         /\ state' = UpdateMatch(state,
                IF Streamed(entry)
                THEN feature_matching_node_stream(stream_llm_with_reasoning(ans))
                ELSE feature_matching_node(ArkChat_call(ans)))
         /\ pc' = route_after_feature_matching(state')
         /\ prompt' = prompt
         /\ Ran("feature_matching", ans)

RequestModification ==
    /\ pc = "request_modification"
    /\ \E ans \in CallAnswers(PlainTexts) :
         LET m == request_modification_node(ArkChat_call(ans))
         IN /\ state' = [state EXCEPT !.modification_request = m,
                                      !.final_response = m]
            /\ pc' = "respond"
            /\ prompt' = prompt
            /\ Ran("request_modification", ans)

StrategyGeneration ==
    /\ pc = "strategy_generation"
    /\ \E ans \in Answers(entry, PlainTexts \cup {TextOf(<<"obj">>, O_strategy)}) :
         LET s == IF Streamed(entry)
                  THEN strategy_generation_node_stream(stream_llm_with_reasoning(ans))
                  ELSE strategy_generation_node(ArkChat_call(ans))
         IN /\ state' = [state EXCEPT !.strategy_explanation = s]
            /\ pc' = "impact_prediction"
            /\ prompt' = prompt
            /\ Ran("strategy_generation", ans)

ImpactPrediction ==
    /\ pc = "impact_prediction"
    /\ state' = [state EXCEPT !.prediction_result =
                    impact_prediction_node(GetList(state.matched_features, ListOf(<<>>)).v)
                        .prediction_result]
    /\ pc' = "final_analysis"
    /\ prompt' = prompt
    /\ Ran("impact_prediction", ServiceAnswer("none", NoText))

FinalAnalysis ==
    /\ pc = "final_analysis"
    /\ \E ans \in Answers(entry, PlainTexts \cup {TextOf(<<"obj">>, O_report)}) :
         LET r == IF Streamed(entry)
                  THEN final_analysis_node_stream(stream_llm_with_reasoning(ans))
                  ELSE final_analysis_node(ArkChat_call(ans))
         IN /\ state' = [state EXCEPT !.final_response = r]
            /\ pc' = "respond"
            /\ prompt' = prompt
            /\ Ran("final_analysis", ans)

\* ------------------------------------------------------------- responses
\* pydantic's check of a dict against schemas.UserIntent: strings, a dict and
\* a list where the schema asks for them; a null fails.
ValidIntent(d) ==
    /\ d.business_goal \notin {Absent, Null} /\ d.kpi \notin {Absent, Null}
    /\ d.target_audience \notin {Absent, Null}
    /\ d.size_preference \notin {Absent, Null}
    /\ d.constraints.k = "list"

\* pydantic's check of a rule against schemas.MatchedFeature
ValidFeature(f) == f.operator # Null /\ f.description # Null

Response(status, response) ==
    [kind |-> "response", status |-> status, response |-> response, saved |-> TRUE]
Http500 == [kind |-> "http500", status |-> "", response |-> "", saved |-> FALSE]

\* routes.py 761-837: the response of /analysis/v2, or the 500 its except
\* branch turns a failed validation into
ResponseV2(st) ==
    LET intent == IF st.user_intent.tag = "dict" THEN st.user_intent.d ELSE EmptyDict
        feats == GetList(st.matched_features, ListOf(<<>>)).v
    IN IF Truthy(Get(st.clarification_question, ""))
       THEN Response("clarification_needed", st.clarification_question)
       ELSE IF Truthy(Get(st.modification_request, ""))
       THEN IF st.user_intent.tag = "dict" /\ ~ValidIntent(intent) THEN Http500
            ELSE Response("modification_needed", st.modification_request)
       ELSE IF \/ intent # EmptyDict /\ ~ValidIntent(intent)
               \/ \E i \in 1..Len(feats) : ~ValidFeature(feats[i])
            THEN Http500
            ELSE Response("success", Get(st.final_response, ""))

\* routes.py 909-956: status and response of the workflow_complete event,
\* tracked over the node_complete events of the terminal stages
ResponseV2Stream(st) ==
    IF Truthy(Get(st.clarification_question, ""))
    THEN Response("clarification_needed", st.clarification_question)
    ELSE IF Truthy(Get(st.modification_request, ""))
    THEN Response("modification_needed", st.modification_request)
    ELSE IF Truthy(Get(st.final_response, ""))
    THEN Response("success", st.final_response)
    ELSE Response("success", "")

\* routes.py 104-166 / 333-377: /analysis and /analysis/stream read the keys
\* intent, audience and metrics, which no stage writes
ResponseV1(st) == Response("", Get(st.final_response, ""))

StoredIntent(e, st) ==
    IF e \in {"analysis", "analysis_stream"} \/ st.user_intent.tag # "dict"
    THEN EmptyDict ELSE st.user_intent.d

StoredMetrics(e, st) ==
    IF e \in {"analysis", "analysis_stream"} THEN NoPrediction ELSE st.prediction_result

\* The handler builds its response and stores the turn.
Respond ==
    /\ pc = "respond"
    /\ LET r == CASE entry = "analysis_v2" -> ResponseV2(state)
                  [] entry = "analysis_v2_stream" -> ResponseV2Stream(state)
                  [] OTHER -> ResponseV1(state)
           stored == IF entry = "analysis_v2" THEN Get(state.final_response, "")
                     ELSE r.response
           turn == ConversationTurn(StoredIntent(entry, state), <<>>,
                                    StoredMetrics(entry, state), stored)
       IN /\ result' = r
          /\ sessions' = IF r.saved
                         THEN [sessions EXCEPT ![sid] = add_turn(sessions[sid], turn)]
                         ELSE sessions
          /\ resolved' = IF r.saved
                         THEN [resolved EXCEPT ![sid] = Append(@, state.user_intent.d)]
                         ELSE resolved
    /\ pc' = "idle"
    /\ turns_done' = turns_done + 1
    /\ UNCHANGED <<entry, sid, state, trace, prompt, reply, consolidated, offlineVars>>

\* /campaign/apply on a session with turns: Session.get_consolidated_context
ApplyCampaign(id) ==
    /\ pc = "idle" /\ consolidated = NoConsolidated
    /\ id \in 1..Len(sessions) /\ sessions[id].turns # <<>>
    /\ \E order \in ListOfSet(AllConstraints(sessions[id].turns)) :
         consolidated' = [id |-> id, constraints |-> order]
    /\ UNCHANGED <<sessions, resolved, turns_done, turnVars, offlineVars>>

Next ==
    \/ \E e \in Entries, id \in 0..MaxSessions : StartTurn(e, id)
    \/ IntentRecognition
    \/ AskClarification
    \/ FeatureMatching
    \/ RequestModification
    \/ StrategyGeneration
    \/ ImpactPrediction
    \/ FinalAnalysis
    \/ Respond
    \/ \E id \in 1..MaxSessions : ApplyCampaign(id)

Spec == Init /\ [][Next]_vars

\* ====================================================== evaluator runs
\* The rule lists the evaluator is run on: rules as feature matching builds
\* them (a catalog name with the catalog's type), any operator, any value.
S_20 == Str(<<"2", "0">>)
S_abc == Str(<<"a", "b", "c">>)
S_and == Str(<<"1", "0", " ", "a", "n", "d", " ", "3", "0">>)
S_dash == Str(<<" ", "1", "0", "-", "3", "0", ".", "5">>)
S_three == Str(<<"1", ",", "2", ",", "3">>)

NumericValues ==
    {Num(2000), S_20, S_abc, S_and, S_dash, S_three,
     Lst(<<Num(1000), Num(3000)>>), Lst(<<Num(1000), NoneV>>),
     Lst(<<Num(9000), NoneV>>), NoneV}

EvalRules ==
    {Rule("last_purchase_days", "numeric", op, v, "") :
        op \in {">", "==", "between", "!="}, v \in NumericValues}
    \cup {Rule("tier", "categorical", op, v, "") :
            op \in {"==", "in", ">"},
            v \in {Str(VVIP), Lst(<<Str(VVIP), Str(Member)>>), NoneV}}
    \cup {Rule("has_overseas_purchase", "boolean", op, v, "") :
            op \in {"==", "!="},
            v \in {Bool(TRUE), Str(<<"T", "r", "u", "e">>), Str(<<"n", "o">>), Num(100)}}
    \cup {Rule("cart_items_pending", "list", "empty", NoneV, ""),
          Rule("category_browsing_handbag", "numeric", ">", Num(0), ""),
          Rule("last_purchase_days", "numeric", "<", Num(1000), "")}

RuleLists == UNION {[1..n -> EvalRules] : n \in 0..MaxRules}

InitEval ==
    /\ sessions = <<>> /\ resolved = <<>> /\ turns_done = 0
    /\ Idle
    /\ consolidated = NoConsolidated
    /\ ev_rules \in RuleLists /\ ev_out = NoOut /\ ev_case = NoCase
    /\ stream = NoStream /\ ServerStart /\ twin = NoTwin /\ calc = NoCalc /\ sse = NoSse

\* impact_prediction_node on a state that carries the rule list
Done(r) ==
    [done |-> TRUE, runs |-> 1, audience |-> r.audience, applied |-> r.applied,
     prediction_result |-> r.prediction_result]
\* the node is called on the same state up to MaxRuns times in a row
MaxRuns == 2
Predict_Consuming ==
    /\ ev_out.runs < MaxRuns
    /\ ev_out' = [Done(impact_prediction_node(ev_rules)) EXCEPT !.runs = ev_out.runs + 1]
    /\ ev_rules' = IF ev_rules = <<>> THEN ev_rules ELSE Tail(ev_rules)
    /\ UNCHANGED <<sessions, resolved, turns_done, turnVars, consolidated,
                   ev_case, stream, serverVars, twin, calc, sse>>
Predict ==
    /\ ev_out.runs < MaxRuns
    /\ ev_out' = [Done(impact_prediction_node(ev_rules)) EXCEPT !.runs = ev_out.runs + 1]
    /\ UNCHANGED <<sessions, resolved, turns_done, turnVars, consolidated, ev_rules,
                   ev_case, stream, serverVars, twin, calc, sse>>

NextEval == Predict

SpecEval == InitEval /\ [][NextEval]_vars

\* ------------------------------------------ between rules with a textual value
\* The textual forms of a between value: two unsigned numerals, joined by
\* "and", "-" or "," with or without blanks, with or without blanks around;
\* and texts that do not split into two numerals.
Numerals ==
    {Numeral(<<"5">>, 500), Numeral(<<"1", "0">>, 1000), Numeral(<<"3", "0">>, 3000),
     Numeral(<<"2", "2", ".", "5">>, 2250)}
Separators ==
    {<<" ", "a", "n", "d", " ">>, <<" ", " ", "a", "n", "d", " ">>,
     <<"-">>, <<" ", "-", " ">>, <<",">>, <<",", " ">>}
Paddings == {<<>>, <<" ">>}
BadPairs ==
    {S_abc.s, S_three.s, <<"1", "0">>, <<"1", "0", " ", "a", "n", "d">>,
     <<"1", "0", "a", "n", "d", "3", "0">>, <<"1", "0", "-", "x">>, <<"-">>}
BetweenRule(text) == <<Rule("last_purchase_days", "numeric", "between", Str(text), "")>>

InitBetween ==
    /\ sessions = <<>> /\ resolved = <<>> /\ turns_done = 0
    /\ Idle
    /\ consolidated = NoConsolidated
    /\ ev_out = NoOut /\ stream = NoStream /\ ServerStart /\ twin = NoTwin /\ calc = NoCalc /\ sse = NoSse
    /\ \/ \E a \in Numerals, b \in Numerals, sep \in Separators, pad \in Paddings :
            /\ ev_case = [kind |-> "pair", a |-> a, b |-> b]
            /\ ev_rules = BetweenRule(pad \o a.s \o sep \o b.s \o pad)
       \/ \E text \in BadPairs :
            /\ ev_case = [kind |-> "bad", a |-> Numeral(text, 0), b |-> Numeral(<<>>, 0)]
            /\ ev_rules = BetweenRule(text)

SpecBetween == InitBetween /\ [][NextEval]_vars

\* ------------------------------------------------------ one streamed call
\* stream_llm_with_reasoning over ArkChat.stream, delta by delta.  A delta is
\* a piece of prose, an object cut short, or the pieces of one whole object.
MaxDeltas == 3
Deltas ==
    {TextOf(<<"prose">>, EmptyObj), TextOf(<<"partial">>, EmptyObj),
     TextOf(<<"obj">>, O_strategy), TextOf(<<"obj">>, O_report)}

\* full_response += chunk
Accumulate(text, chunk) ==
    TextOf(text.segs \o chunk.segs, IF chunk.segs = <<"obj">> THEN chunk.obj ELSE text.obj)

\* llm.py 146-166: the request is open, nothing delivered yet
InitStream ==
    /\ sessions = <<>> /\ resolved = <<>> /\ turns_done = 0
    /\ Idle
    /\ consolidated = NoConsolidated
    /\ ev_rules = <<>> /\ ev_out = NoOut /\ ev_case = NoCase
    /\ stream = [NoStream EXCEPT !.phase = "streaming"]
    /\ ServerStart /\ twin = NoTwin /\ calc = NoCalc /\ sse = NoSse

StreamUnchanged ==
    UNCHANGED <<sessions, resolved, turns_done, turnVars, consolidated, evalVars,
                serverVars, twin, calc, sse>>

\* llm.py 164-173 / streaming_nodes.py 35-38: one content delta is yielded
\* and added to the accumulated text
Delta(chunk) ==
    /\ stream.phase = "streaming"
    /\ Len(stream.full_response.segs) < MaxDeltas
    /\ stream' = [stream EXCEPT !.full_response = Accumulate(@, chunk)]
    /\ StreamUnchanged

\* llm.py 172-173 / streaming_nodes.py 36, 54-56: a delta whose content is
\* null is yielded as it is; adding it to the text raises in the consumer,
\* whose except branch yields the error event
BadDelta ==
    /\ stream.phase = "streaming"
    /\ stream' = [stream EXCEPT !.phase = "done",
                                !.event = [type |-> "error", data |-> EmptyObj]]
    /\ StreamUnchanged

\* llm.py 164: the lines of the response are exhausted
ServiceEnds ==
    /\ stream.phase = "streaming"
    /\ stream' = [stream EXCEPT !.phase = "ended", !.completed = TRUE]
    /\ StreamUnchanged

\* llm.py 175-179: the request or the open stream raises; the mock response
\* is streamed after what was delivered, and the generator ends
ServiceFails ==
    /\ stream.phase = "streaming"
    /\ stream' = [stream EXCEPT !.phase = "ended", !.failed = TRUE,
                                !.full_response = Accumulate(@, MockText)]
    /\ StreamUnchanged

\* streaming_nodes.py 40-52: after the loop, the accumulated text is parsed
\* and the result event is yielded
ParseResult ==
    /\ stream.phase = "ended"
    /\ stream' = [stream EXCEPT !.phase = "done", !.parses = @ + 1,
                                !.event = [type |-> "result",
                                           data |-> ParseStreamed(stream.full_response)]]
    /\ StreamUnchanged

NextStream ==
    \/ \E chunk \in Deltas : Delta(chunk)
    \/ BadDelta
    \/ ServiceEnds
    \/ ServiceFails
    \/ ParseResult

SpecStream == InitStream /\ [][NextStream]_vars

\* ------------------------------------------------- the server under load
\* Request handlers are coroutines on one event loop: the code between two
\* awaits runs without interruption, and another handler may run at each
\* await.  A turn handler awaits the agent run between reading the session
\* and appending its turn.  Session ids are 1, 2, ... in the order of
\* creation (uuid4 in the code); ForeignId is an id the store never issued.
MaxRequests == 2
MaxCreated == 3
ForeignId == MaxCreated + 1
\* the ids a caller can supply: none, one a response has named, a foreign one
GivenIds(m) == {NoId, ForeignId} \cup (1..Len(m.objects))
\* /analysis caches its response, the other turn handlers do not
ServerEntries == {"analysis", "analysis_v2"}

IdleHandler ==
    [pc |-> "idle", entry |-> "none", given |-> NoId, sid |-> NoId,
     baseline |-> <<>>, start |-> 0]

\* session.py 300-309
create_session(m) ==
    [live |-> m.live \cup {Len(m.objects) + 1}, objects |-> Append(m.objects, NewSession)]
\* session.py 322-335
delete_session(m, session_id) == [m EXCEPT !.live = @ \ {session_id}]
\* session.py 337-350
clear_session_NoDelete(m, session_id) == create_session(m)
clear_session(m, session_id) ==
    create_session(IF session_id \in m.live THEN delete_session(m, session_id) ELSE m)
\* session.py 352-363: the id of the session returned, and the manager after
ResolvedId(m, session_id) ==
    IF session_id # NoId /\ session_id \in m.live THEN session_id
    ELSE Len(m.objects) + 1
Resolved(m, session_id) ==
    IF session_id # NoId /\ session_id \in m.live THEN m ELSE create_session(m)

\* the Turn the handler r appends; its reply stands for all it computed
TurnOf(r) == ConversationTurn(EmptyDict, <<>>, NoPrediction, r)
Started == Cardinality({r \in 1..MaxRequests : handlers[r].pc # "idle"})

InitServer ==
    /\ sessions = <<>> /\ resolved = <<>> /\ turns_done = 0
    /\ Idle
    /\ consolidated = NoConsolidated
    /\ ev_rules = <<>> /\ ev_out = NoOut /\ ev_case = NoCase
    /\ stream = NoStream /\ twin = NoTwin /\ calc = NoCalc /\ sse = NoSse
    /\ manager = [live |-> {}, objects |-> <<>>]
    /\ handlers = [r \in 1..MaxRequests |-> IdleHandler]
    /\ last_analysis_result = NoId
    /\ last_op = NoOp

ServerUnchanged ==
    UNCHANGED <<sessions, resolved, turns_done, turnVars, consolidated, evalVars, stream,
                twin, calc, sse>>

\* routes.py 79-104 / 744-759 / 893-906: the handler resolves its session
\* and reads the turn list (and the latest context) before it awaits the agent
Begin(r, e, session_id) ==
    /\ handlers[r].pc = "idle"
    /\ session_id \in manager.live \/ Len(manager.objects) < MaxCreated
    /\ manager' = Resolved(manager, session_id)
    /\ handlers' = [handlers EXCEPT ![r] =
            [pc |-> "running", entry |-> e, given |-> session_id,
             sid |-> ResolvedId(manager, session_id),
             baseline |-> manager'.objects[ResolvedId(manager, session_id)].turns,
             start |-> Started + 1]]
    /\ last_op' = [NoOp EXCEPT !.kind = "begin"]
    /\ UNCHANGED last_analysis_result
    /\ ServerUnchanged

\* routes.py 147-168 / 839-847 / 956-965: after the agent run the handler
\* appends its Turn to the Session it holds; /analysis also caches its response
Finish(r) ==
    /\ handlers[r].pc = "running"
    /\ manager' = [manager EXCEPT !.objects[handlers[r].sid] = add_turn(@, TurnOf(r))]
    /\ handlers' = [handlers EXCEPT ![r].pc = "done"]
    /\ last_analysis_result' = IF handlers[r].entry = "analysis" THEN r
                               ELSE last_analysis_result
    /\ last_op' = [NoOp EXCEPT !.kind = "finish"]
    /\ ServerUnchanged

\* routes.py 176-178 / 855-857 / 967-971: the agent run or the response
\* raises; the handler answers with an error and appends nothing
Fail(r) ==
    /\ handlers[r].pc = "running"
    /\ handlers' = [handlers EXCEPT ![r].pc = "done"]
    /\ last_op' = [NoOp EXCEPT !.kind = "fail"]
    /\ UNCHANGED <<manager, last_analysis_result>>
    /\ ServerUnchanged

\* routes.py 561-594: POST /session/reset; the handler has no await
Reset(session_id) ==
    /\ Len(manager.objects) < MaxCreated
    /\ manager' = IF session_id # NoId THEN clear_session(manager, session_id)
                  ELSE create_session(manager)
    /\ last_op' = [kind |-> "reset", old |-> session_id,
                   existed |-> session_id \in manager.live,
                   new |-> Len(manager.objects) + 1, served |-> NoId,
                   health |-> NoHealth]
    /\ UNCHANGED <<handlers, last_analysis_result>>
    /\ ServerUnchanged

\* routes.py 411-447: GET /users/high-potential serves the audience of the
\* cached response, or the ranked population when nothing is cached
HighPotential ==
    /\ last_op' = [NoOp EXCEPT !.kind = "high_potential", !.served = last_analysis_result]
    /\ UNCHANGED <<manager, handlers, last_analysis_result>>
    /\ ServerUnchanged

\* session.py 294-298: the attributes SessionManager.__init__ sets
SessionManagerAttributes == {"_sessions", "memory_manager"}
\* reading an attribute the object does not have raises AttributeError
HasAttribute(name) == name \in SessionManagerAttributes

\* routes.py 493-555: GET /health with the three components constructed.
\* Each component is probed inside its own try; the probe of the session
\* manager reads len(session_manager.sessions), and a probe that raised
\* reports "error" and turns the status to "degraded".
health_check(m) ==
    [status |-> IF HasAttribute("sessions") THEN "healthy" ELSE "degraded",
     llm_manager |-> "ready",
     agent_graph |-> "ready",
     session_manager |-> IF HasAttribute("sessions") THEN "ready" ELSE "error",
     reports_active_sessions |-> HasAttribute("sessions"),
     active_sessions |-> IF HasAttribute("sessions") THEN Cardinality(m.live) ELSE 0]

Health ==
    /\ last_op' = [NoOp EXCEPT !.kind = "health", !.health = health_check(manager)]
    /\ UNCHANGED <<manager, handlers, last_analysis_result>>
    /\ ServerUnchanged

NextServer ==
    \/ \E r \in 1..MaxRequests, e \in ServerEntries, session_id \in GivenIds(manager) :
          Begin(r, e, session_id)
    \/ \E r \in 1..MaxRequests : Finish(r)
    \/ \E r \in 1..MaxRequests : Fail(r)
    \/ \E session_id \in GivenIds(manager) : Reset(session_id)
    \/ HighPotential
    \/ Health

SpecServer == InitServer /\ [][NextServer]_vars

\* ========================================================= replay runs
\* Two runs x and y of the same turns at the same entry points, each with
\* its own store, fed the same collaborator answers stage by stage.  In a
\* run of kind "session" x starts in a store that holds an earlier session
\* and y in an empty store; in a run of kind "flag" the two differ in the
\* modification keyword of the input, and so in is_modification.
MaxReplayTurns == 2
ReplayKinds == {"flag", "session"}
V1Entries == {"analysis", "analysis_stream"}

\* Session.should_modify_intent; `keyword` tells whether the input holds one
\* of the modification keywords
should_modify_intent(session, keyword) == session.turns # <<>> /\ keyword

\* a session that handled one turn before the replay starts
EarlierSession ==
    add_turn(NewSession, ConversationTurn(BuildIntent(I_first), <<>>, NoPrediction, ""))

IdleRun(store) ==
    [pc |-> "idle", store |-> store, sid |-> NoId, state |-> InitialState,
     is_modification |-> FALSE, trace |-> <<>>]

NewTwin(kind) ==
    [kind |-> kind, entry |-> "none", turns |-> 0,
     x |-> IdleRun(IF kind = "session" THEN <<EarlierSession>> ELSE <<>>),
     y |-> IdleRun(<<>>)]

InitTwin ==
    /\ sessions = <<>> /\ resolved = <<>> /\ turns_done = 0
    /\ Idle
    /\ consolidated = NoConsolidated
    /\ ev_rules = <<>> /\ ev_out = NoOut /\ ev_case = NoCase
    /\ stream = NoStream /\ ServerStart /\ calc = NoCalc /\ sse = NoSse
    /\ \E kind \in ReplayKinds : twin = NewTwin(kind)

TwinUnchanged ==
    UNCHANGED <<sessions, resolved, turns_done, turnVars, consolidated, evalVars, stream,
                serverVars, calc, sse>>

\* routes.py 79-100 / 213-229 / 744-759: the handler resolves its session
\* (g) and builds the initial state of the graph; only /analysis and
\* /analysis/stream put previous_intent and is_modification into it
begun(e, r, g, keyword) ==
    [r EXCEPT !.pc = "intent_recognition",
              !.store = g.store,
              !.sid = g.id,
              !.state = IF e \in V1Entries THEN InitialStateV1(g.store[g.id])
                        ELSE InitialState,
              !.is_modification = IF e \in V1Entries
                                  THEN should_modify_intent(g.store[g.id], keyword)
                                  ELSE FALSE,
              !.trace = <<>>]
begin_turn(e, r, keyword) == begun(e, r, get_or_create_session(r.store, r.sid), keyword)

\* A variant of the intent stage that keeps the previous intent of a turn
\* flagged as a modification.
intent_update_Modifying(e, r, ans) ==
    IF r.is_modification
    THEN [user_intent |-> r.state.previous_intent.d, intent_status |-> "clear"]
    ELSE IntentFallback

\* A variant of the intent stage that answers by the session's place in the
\* store.
intent_update_BySession(e, r, ans) ==
    IF r.sid > 1 THEN IntentFallback
    ELSE intent_recognition_node(r.state.previous_intent, ArkChat_call(ans))

\* the update the intent stage returns for run r, given the answer
intent_update(e, r, ans) ==
    IF Streamed(e)
    THEN intent_recognition_node_stream(stream_llm_with_reasoning(ans))
    ELSE intent_recognition_node(r.state.previous_intent, ArkChat_call(ans))

\* the run after a stage that left state st and routes to next
Staged(r, st, next) ==
    [r EXCEPT !.state = st, !.pc = next, !.trace = Append(@, r.pc)]

\* graph.py 59-118: the stage run r is at, with the collaborator's answer,
\* and the edge that leaves it
run_stage(e, r, ans) ==
    CASE r.pc = "intent_recognition" ->
            Staged(r, UpdateIntent(r.state, intent_update(e, r, ans)),
                   route_after_intent_recognition(
                       UpdateIntent(r.state, intent_update(e, r, ans))))
      [] r.pc = "ask_clarification" ->
            Staged(r, [r.state EXCEPT
                         !.clarification_question =
                             ask_clarification_node(ArkChat_call(ans)),
                         !.final_response =
                             ask_clarification_node(ArkChat_call(ans))],
                   "respond")
      [] r.pc = "feature_matching" ->
            Staged(r, UpdateMatch(r.state,
                         IF Streamed(e)
                         THEN feature_matching_node_stream(stream_llm_with_reasoning(ans))
                         ELSE feature_matching_node(ArkChat_call(ans))),
                   route_after_feature_matching(UpdateMatch(r.state,
                         IF Streamed(e)
                         THEN feature_matching_node_stream(stream_llm_with_reasoning(ans))
                         ELSE feature_matching_node(ArkChat_call(ans)))))
      [] r.pc = "request_modification" ->
            Staged(r, [r.state EXCEPT
                         !.modification_request =
                             request_modification_node(ArkChat_call(ans)),
                         !.final_response =
                             request_modification_node(ArkChat_call(ans))],
                   "respond")
      [] r.pc = "strategy_generation" ->
            Staged(r, [r.state EXCEPT !.strategy_explanation =
                         IF Streamed(e)
                         THEN strategy_generation_node_stream(stream_llm_with_reasoning(ans))
                         ELSE strategy_generation_node(ArkChat_call(ans))],
                   "impact_prediction")
      [] r.pc = "impact_prediction" ->
            Staged(r, [r.state EXCEPT !.prediction_result =
                         impact_prediction_node(
                             GetList(r.state.matched_features, ListOf(<<>>)).v)
                                 .prediction_result],
                   "final_analysis")
      [] r.pc = "final_analysis" ->
            Staged(r, [r.state EXCEPT !.final_response =
                         IF Streamed(e)
                         THEN final_analysis_node_stream(stream_llm_with_reasoning(ans))
                         ELSE final_analysis_node(ArkChat_call(ans))],
                   "respond")

\* what the stub collaborator may answer to a stage
AnswersAt(e, stage) ==
    CASE stage = "intent_recognition" -> Answers(e, IntentTexts)
      [] stage = "feature_matching" -> Answers(e, MatchTexts)
      [] stage = "strategy_generation" ->
            Answers(e, PlainTexts \cup {TextOf(<<"obj">>, O_strategy)})
      [] stage = "final_analysis" ->
            Answers(e, PlainTexts \cup {TextOf(<<"obj">>, O_report)})
      [] stage = "impact_prediction" -> {ServiceAnswer("none", NoText)}
      [] OTHER -> CallAnswers(PlainTexts)

AtStage(r) == r.pc \notin {"idle", "respond"}
StageOf(t) == IF AtStage(t.x) THEN t.x.pc ELSE t.y.pc

\* the response of the handler of entry e
handler_response(e, st) ==
    CASE e = "analysis_v2" -> ResponseV2(st)
      [] e = "analysis_v2_stream" -> ResponseV2Stream(st)
      [] OTHER -> ResponseV1(st)

\* routes.py 147-155 / 839-847 / 956-964: the handler stores the turn
end_turn(e, r) ==
    [r EXCEPT !.pc = "idle",
              !.store = IF handler_response(e, r.state).saved
                        THEN [r.store EXCEPT ![r.sid] =
                                add_turn(@, ConversationTurn(
                                    StoredIntent(e, r.state), <<>>,
                                    StoredMetrics(e, r.state),
                                    IF e = "analysis_v2"
                                    THEN Get(r.state.final_response, "")
                                    ELSE handler_response(e, r.state).response))]
                        ELSE r.store]

\* The same request reaches both runs; kx and ky tell whether its input
\* holds a modification keyword.
TwinStart(e, kx, ky) ==
    /\ twin.kind # "none" /\ twin.turns < MaxReplayTurns
    /\ twin.x.pc = "idle" /\ twin.y.pc = "idle"
    /\ twin.kind = "flag" => e \in V1Entries
    /\ twin.kind = "session" => kx = ky
    /\ twin' = [twin EXCEPT !.entry = e, !.turns = @ + 1,
                            !.x = begin_turn(e, twin.x, kx),
                            !.y = begin_turn(e, twin.y, ky)]
    /\ TwinUnchanged

\* The stage the runs are at gets the stub's answer.
TwinStage ==
    /\ twin.kind # "none"
    /\ AtStage(twin.x) \/ AtStage(twin.y)
    /\ \E ans \in AnswersAt(twin.entry, StageOf(twin)) :
         twin' = [twin EXCEPT
                    !.x = IF @.pc = StageOf(twin)
                          THEN run_stage(twin.entry, @, ans) ELSE @,
                    !.y = IF @.pc = StageOf(twin)
                          THEN run_stage(twin.entry, @, ans) ELSE @]
    /\ TwinUnchanged

\* The handlers respond and store their turns.
TwinRespond ==
    /\ twin.kind # "none"
    /\ ~AtStage(twin.x) /\ ~AtStage(twin.y)
    /\ twin.x.pc = "respond" \/ twin.y.pc = "respond"
    /\ twin' = [twin EXCEPT
                  !.x = IF @.pc = "respond" THEN end_turn(twin.entry, @) ELSE @,
                  !.y = IF @.pc = "respond" THEN end_turn(twin.entry, @) ELSE @]
    /\ TwinUnchanged

NextTwin ==
    \/ \E e \in Entries, kx \in BOOLEAN, ky \in BOOLEAN : TwinStart(e, kx, ky)
    \/ TwinStage
    \/ TwinRespond

SpecTwin == InitTwin /\ [][NextTwin]_vars

\* ===================================================== calculator runs
\* utils/metrics.py.  A float is the ratio it stands for; None and 0 are
\* both 0 where the code tests truthiness.
AVG_ORDER_VALUE == 18000

\* Ratios are kept in lowest terms.
RECURSIVE Gcd(_, _)
Gcd(a, b) == IF b = 0 THEN a ELSE Gcd(b, a % b)
Abs(n) == IF n < 0 THEN 0 - n ELSE n
Lowest(num, den, g) == Ratio(num \div g, den \div g)
Reduce(r) == IF r.den = 0 THEN r ELSE Lowest(r.num, r.den, Gcd(Abs(r.num), Abs(r.den)))
RatioMul(a, b) == Reduce(Ratio(a.num * b.num, a.den * b.den))
RatioLe(a, b) == a.num * b.den <= b.num * a.den
RatioMin(a, b) == IF RatioLe(a, b) THEN a ELSE b
RatioEq(a, b) == a.num * b.den = b.num * a.den

\* MetricsCalculator.calculate_conversion_rate
calculate_conversion_rate(audience_size, base_rate) ==
    IF audience_size < 100
    THEN RatioMin(RatioMul(base_rate, Ratio(18, 10)), Ratio(15, 100))
    ELSE IF audience_size < 300
    THEN RatioMin(RatioMul(base_rate, Ratio(15, 10)), Ratio(12, 100))
    ELSE IF audience_size < 500
    THEN RatioMin(RatioMul(base_rate, Ratio(12, 10)), Ratio(10, 100))
    ELSE base_rate

\* MetricsCalculator.calculate_estimated_revenue
calculate_estimated_revenue(audience_size, conversion_rate, avg_order_value) ==
    RatioMul(Ratio(audience_size, 1),
             RatioMul(conversion_rate,
                      Ratio(IF avg_order_value # 0 THEN avg_order_value
                            ELSE AVG_ORDER_VALUE, 1)))

\* MetricsCalculator.calculate_roi
calculate_roi(estimated_revenue, campaign_cost) ==
    IF campaign_cost <= 0 THEN Zero
    ELSE RatioMul(Reduce(Ratio(estimated_revenue.num
                                  - campaign_cost * estimated_revenue.den,
                               campaign_cost * estimated_revenue.den)),
                  Ratio(100, 1))

\* MetricsCalculator.calculate_reach_rate
calculate_reach_rate(audience_size, total_users) ==
    IF total_users <= 0 THEN Zero
    ELSE Reduce(Ratio(audience_size * 100, total_users))

\* tier_weights.get(tier, 0), in tenths
tier_weights(tier) ==
    CASE tier = VVIP -> 8 [] tier = VIP -> 5 [] tier = Member -> 2 [] OTHER -> 0

RECURSIVE SumCounts(_, _)
SumCounts(dist, tiers) ==
    IF tiers = {} THEN 0
    ELSE dist[CHOOSE t \in tiers : TRUE]
         + SumCounts(dist, tiers \ {CHOOSE t \in tiers : TRUE})

RECURSIVE SumWeighted(_, _)
SumWeighted(dist, tiers) ==
    IF tiers = {} THEN 0
    ELSE dist[CHOOSE t \in tiers : TRUE] * tier_weights(CHOOSE t \in tiers : TRUE)
         + SumWeighted(dist, tiers \ {CHOOSE t \in tiers : TRUE})

\* quality = avg_user_score * 0.5 + sum of (count / total_users) * weight * 50
QualityOf(avg_user_score, weighted, total_users) ==
    IF total_users > 0
    THEN Reduce(Ratio(avg_user_score * total_users + 10 * weighted, 2 * total_users))
    ELSE Reduce(Ratio(avg_user_score, 2))

\* MetricsCalculator.calculate_audience_quality_score
calculate_audience_quality_score(avg_user_score, audience_tier_distribution) ==
    RatioMin(Ratio(100, 1),
             QualityOf(avg_user_score,
                       SumWeighted(audience_tier_distribution,
                                   DOMAIN audience_tier_distribution),
                       SumCounts(audience_tier_distribution,
                                 DOMAIN audience_tier_distribution)))

AllMetrics(audience_size, conversion_rate, estimated_revenue, roi, reach_rate, quality_score) ==
    [audience_size |-> audience_size, conversion_rate |-> conversion_rate,
     estimated_revenue |-> estimated_revenue, roi |-> roi,
     reach_rate |-> reach_rate, quality_score |-> quality_score]

\* MetricsCalculator.estimate_metrics
estimate_metrics(audience_size, avg_user_score, audience_tier_distribution, campaign_cost) ==
    AllMetrics(audience_size,
        calculate_conversion_rate(audience_size, Ratio(5, 100)),
        calculate_estimated_revenue(audience_size,
            calculate_conversion_rate(audience_size, Ratio(5, 100)), 0),
        calculate_roi(calculate_estimated_revenue(audience_size,
            calculate_conversion_rate(audience_size, Ratio(5, 100)), 0), campaign_cost),
        calculate_reach_rate(audience_size, 1000),
        calculate_audience_quality_score(avg_user_score, audience_tier_distribution))

\* routes.predict_metrics: POST /prediction/metrics
predict_metrics(audienceSize) ==
    AllMetrics(audienceSize,
        calculate_conversion_rate(audienceSize, Ratio(5, 100)),
        calculate_estimated_revenue(audienceSize,
            calculate_conversion_rate(audienceSize, Ratio(5, 100)), AVG_ORDER_VALUE),
        calculate_roi(calculate_estimated_revenue(audienceSize,
            calculate_conversion_rate(audienceSize, Ratio(5, 100)), AVG_ORDER_VALUE),
            10000),
        calculate_reach_rate(audienceSize, 1000),
        Ratio(85, 1))

\* The arguments the calculator is called with.
EmptyDistribution == [t \in {} |-> 0]
AudienceSizes == {0, 1, 99, 100, 299, 300, 499, 500}
UserScores == {0, 80, 100}
Distributions ==
    {EmptyDistribution, [t \in {VVIP} |-> 1], [t \in {VVIP} |-> 0],
     [t \in {VIP, Member} |-> IF t = VIP THEN 2 ELSE 1],
     [t \in {<<"G", "u", "e", "s", "t">>} |-> 3]}
CampaignCosts == {0, 10000, 20000}
TotalUsers == {0, 1000}
OrderValues == {0, 100, AVG_ORDER_VALUE}
BaseRates == {Ratio(5, 100), Ratio(10, 100)}

\* one call: the function, the audience it was called for, and what it
\* returned (a number, or the dict of estimate_metrics / the endpoint)
Called(call, audience_size, dist, numbers) ==
    [call |-> call, audience_size |-> audience_size,
     tier_distribution |-> dist, numbers |-> numbers]

InitCalc ==
    /\ sessions = <<>> /\ resolved = <<>> /\ turns_done = 0
    /\ Idle
    /\ consolidated = NoConsolidated
    /\ ev_rules = <<>> /\ ev_out = NoOut /\ ev_case = NoCase
    /\ stream = NoStream /\ ServerStart /\ twin = NoTwin /\ calc = NoCalc /\ sse = NoSse

CalcUnchanged ==
    UNCHANGED <<sessions, resolved, turns_done, turnVars, consolidated, evalVars, stream,
                serverVars, twin, sse>>

ConversionRate(audience_size, base_rate) ==
    /\ calc' = Called("calculate_conversion_rate", audience_size, EmptyDistribution,
                      <<calculate_conversion_rate(audience_size, base_rate)>>)
    /\ CalcUnchanged

EstimatedRevenue(audience_size, base_rate, avg_order_value) ==
    /\ calc' = Called("calculate_estimated_revenue", audience_size, EmptyDistribution,
                      <<calculate_estimated_revenue(audience_size,
                            calculate_conversion_rate(audience_size, base_rate),
                            avg_order_value)>>)
    /\ CalcUnchanged

Roi(audience_size, campaign_cost) ==
    /\ calc' = Called("calculate_roi", audience_size, EmptyDistribution,
                      <<calculate_roi(
                            calculate_estimated_revenue(audience_size,
                                calculate_conversion_rate(audience_size, Ratio(5, 100)), 0),
                            campaign_cost)>>)
    /\ CalcUnchanged

ReachRate(audience_size, total_users) ==
    /\ calc' = Called("calculate_reach_rate", audience_size, EmptyDistribution,
                      <<calculate_reach_rate(audience_size, total_users)>>)
    /\ CalcUnchanged

QualityScore(avg_user_score, dist) ==
    /\ calc' = Called("calculate_audience_quality_score",
                      SumCounts(dist, DOMAIN dist), dist,
                      <<calculate_audience_quality_score(avg_user_score, dist)>>)
    /\ CalcUnchanged

\* the five numbers of a metrics dict, in the order of the calls
Numbers(m) ==
    <<m.conversion_rate, m.estimated_revenue, m.roi, m.reach_rate, m.quality_score>>

EstimateMetrics(audience_size, avg_user_score, dist, campaign_cost) ==
    /\ calc' = Called("estimate_metrics", audience_size, dist,
                      Numbers(estimate_metrics(audience_size, avg_user_score, dist,
                                               campaign_cost)))
    /\ CalcUnchanged

PredictMetrics(audienceSize) ==
    /\ calc' = Called("predict_metrics", audienceSize, EmptyDistribution,
                      Numbers(predict_metrics(audienceSize)))
    /\ CalcUnchanged

NextCalc ==
    \/ \E n \in AudienceSizes, b \in BaseRates : ConversionRate(n, b)
    \/ \E n \in AudienceSizes, b \in BaseRates, v \in OrderValues :
            EstimatedRevenue(n, b, v)
    \/ \E n \in AudienceSizes, c \in CampaignCosts : Roi(n, c)
    \/ \E n \in AudienceSizes, t \in TotalUsers : ReachRate(n, t)
    \/ \E a \in UserScores, d \in Distributions : QualityScore(a, d)
    \/ \E n \in AudienceSizes, a \in UserScores, d \in Distributions,
          c \in CampaignCosts : EstimateMetrics(n, a, d, c)
    \/ \E n \in AudienceSizes : PredictMetrics(n)

SpecCalc == InitCalc /\ [][NextCalc]_vars

\* ========================================================== event runs
\* The event generator of GET /analysis/v2/stream (routes.py 891-976) over
\* run_agent_stream_v2 (graph.py 209-339): the events it sends, the turn it
\* stores, and the client that may go away while the generator is suspended
\* at a yield.  The reasoning events of a stage are left out.
MaxStreamTurns == 2
StreamEntry == "analysis_v2_stream"

Event(type, node) == [type |-> type, node |-> node]

\* whether the stage yields its node_complete event: the streamed strategy
\* and report stages have no branch for the error event of the stream
\* (streaming_nodes.py 393-430, 482-539); the other stages complete on every
\* path (streaming_nodes.py 159-194, 324-346; graph.py 262-273, 288-299,
\* 313-324)
node_complete_sent(stage, ans) ==
    ~(/\ stage \in {"strategy_generation", "final_analysis"}
      /\ stream_llm_with_reasoning(ans).type = "error")

\* the node events of one stage, in the order they are yielded
node_events(stage, ans) ==
    <<Event("node_start", stage)>>
    \o (IF node_complete_sent(stage, ans)
        THEN <<Event("node_complete", stage)>> ELSE <<>>)

\* phase: "idle" no request in flight, "open" the workflow runs,
\* "complete_sent" suspended at the yield of workflow_complete.
\* ended: how the last request ended; before: the session as the request
\* found it.
Generator(phase, run, events, ended, before) ==
    [phase |-> phase, run |-> run, events |-> events, ended |-> ended,
     before |-> before]

InitSse ==
    /\ sessions = <<>> /\ resolved = <<>> /\ turns_done = 0
    /\ Idle
    /\ consolidated = NoConsolidated
    /\ ev_rules = <<>> /\ ev_out = NoOut /\ ev_case = NoCase
    /\ stream = NoStream /\ ServerStart /\ twin = NoTwin /\ calc = NoCalc
    /\ sse = Generator("idle", IdleRun(<<>>), <<>>, "none", NewSession)

SseUnchanged ==
    UNCHANGED <<sessions, resolved, turns_done, turnVars, consolidated, evalVars, stream,
                serverVars, twin, calc>>

\* the generator after the handler resolved its session and started the run
Opened(r) == Generator("open", r, <<>>, "none", r.store[r.sid])

\* routes.py 893-912: a request arrives, with the id of the session of the
\* request before or without one
SseRequest ==
    /\ sse.phase = "idle"
    /\ Len(sse.run.store) < MaxStreamTurns
    /\ Len(sse.run.store) > 0 => Len(sse.run.store[sse.run.sid].turns) < MaxStreamTurns
    /\ sse' = Opened(begin_turn(StreamEntry, sse.run, FALSE))
    /\ SseUnchanged

\* graph.py 250-339: one stage runs and its events are forwarded
SseStage ==
    /\ sse.phase = "open" /\ AtStage(sse.run)
    /\ \E ans \in AnswersAt(StreamEntry, sse.run.pc) :
         sse' = [sse EXCEPT !.run = run_stage(StreamEntry, @, ans),
                            !.events = @ \o node_events(sse.run.pc, ans)]
    /\ SseUnchanged

\* routes.py 942-955: the workflow ended, workflow_complete is yielded
SseComplete ==
    /\ sse.phase = "open" /\ sse.run.pc = "respond"
    /\ sse' = [sse EXCEPT !.phase = "complete_sent",
                          !.events = Append(@, Event("workflow_complete", "none"))]
    /\ SseUnchanged

\* routes.py 957-971: the generator is resumed and stores the turn
SseStore ==
    /\ sse.phase = "complete_sent"
    /\ sse' = [sse EXCEPT !.phase = "idle", !.ended = "stored",
                          !.run = end_turn(StreamEntry, @)]
    /\ SseUnchanged

\* The client goes away: the response task is cancelled and the generator is
\* closed at the yield it is suspended at; except Exception (routes.py 973)
\* does not catch the cancellation.
SseDisconnect ==
    /\ sse.phase \in {"open", "complete_sent"}
    /\ sse' = [sse EXCEPT !.phase = "idle",
                          !.ended = IF sse.phase = "open" THEN "cancelled"
                                    ELSE "cancelled_after_complete",
                          !.run = [@ EXCEPT !.pc = "idle"]]
    /\ SseUnchanged

NextSse ==
    \/ SseRequest
    \/ SseStage
    \/ SseComplete
    \/ SseStore
    \/ SseDisconnect

SpecSse == InitSse /\ [][NextSse]_vars

\* ------------------------------------------------- what a rule means
\* The number a rule value stands for, if any
RuleNumber(v) ==
    CASE v.t = "num" -> [ok |-> TRUE, n |-> v.n]
      [] v.t = "bool" -> [ok |-> TRUE, n |-> IF v.b THEN 100 ELSE 0]
      [] v.t = "str" -> ParseNumber(v.s)
      [] OTHER -> [ok |-> FALSE, n |-> 0]

\* The pair of endpoints a between value stands for, if any
RulePair(v) ==
    LET parts == ReSplit(Strip(v.s))
    IN CASE v.t = "str" ->
              IF Len(parts) = 2 /\ ParseNumber(parts[1]).ok /\ ParseNumber(parts[2]).ok
              THEN [ok |-> TRUE, lo |-> ParseNumber(parts[1]).n, hi |-> ParseNumber(parts[2]).n]
              ELSE [ok |-> FALSE, lo |-> 0, hi |-> 0]
         [] v.t = "list" ->
              IF Len(v.l) = 2 /\ RuleNumber(v.l[1]).ok /\ RuleNumber(v.l[2]).ok
              THEN [ok |-> TRUE, lo |-> RuleNumber(v.l[1]).n, hi |-> RuleNumber(v.l[2]).n]
              ELSE [ok |-> FALSE, lo |-> 0, hi |-> 0]
         [] OTHER -> [ok |-> FALSE, lo |-> 0, hi |-> 0]

RuleBool(v) ==
    CASE v.t = "bool" -> [ok |-> TRUE, b |-> v.b]
      [] v.t = "str" -> [ok |-> TRUE, b |-> LowerStr(v.s) \in TruthyTokens]
      [] v.t = "num" -> [ok |-> v.n \in {0, 100}, b |-> v.n = 100]
      [] OTHER -> [ok |-> FALSE, b |-> FALSE]

\* The record `id` satisfies the rule.  A rule without a meaning (a value
\* that is no number where one is needed, an operator the type does not
\* have) is satisfied by no record.  A rule on a boolean feature asks the
\* attribute to equal the value, whatever operator it names.
Satisfies(id, r) ==
    LET u == MOCK_USERS_WITH_FEATURES[id]
        x == UserGet(id, r.feature_name, Num(0)).n
        n == RuleNumber(r.value)
        p == RulePair(r.value)
        b == RuleBool(r.value)
    IN CASE r.feature_type = "numeric" ->
              IF r.operator = "between" THEN p.ok /\ p.lo <= x /\ x <= p.hi
              ELSE IF r.operator \in {">", ">=", "<", "<="}
              THEN n.ok /\ PyCmp(r.operator, x, n.n)
              ELSE r.operator = "==" /\ n.ok /\ x = n.n
         [] r.feature_type = "categorical" ->
              /\ r.feature_name = "tier"
              /\ \/ r.operator \in {"==", "in"} /\ r.value.t = "str" /\ u.tier = r.value.s
                 \/ /\ r.operator = "in" /\ r.value.t = "list"
                    /\ \E i \in 1..Len(r.value.l) :
                         r.value.l[i].t = "str" /\ u.tier = r.value.l[i].s
         [] r.feature_type = "boolean" ->
              /\ r.feature_name = "has_overseas_purchase"
              /\ b.ok /\ u.has_overseas_purchase = b.b
         [] r.feature_type = "list" ->
              /\ r.feature_name = "cart_items_pending"
              /\ \/ r.operator = "empty" /\ u.cart_items_pending = 0
                 \/ r.operator = "not_empty" /\ u.cart_items_pending > 0
         [] OTHER -> FALSE

\* A rule on a numeric or categorical feature whose operator the type has
\* and whose value has the form the operator needs, or any rule on a boolean
\* feature
Evaluable(r) ==
    CASE r.feature_type = "numeric" ->
              IF r.operator = "between" THEN RulePair(r.value).ok
              ELSE r.operator \in {">", ">=", "<", "<=", "=="} /\ RuleNumber(r.value).ok
      [] r.feature_type = "categorical" -> r.operator \in {"==", "in"}
      [] r.feature_type = "boolean" -> TRUE
      [] OTHER -> FALSE

Last(seq) == seq[Len(seq)]
IsPrefix(a, b) == Len(a) <= Len(b) /\ a = SubSeq(b, 1, Len(a))
TurnEnded == pc = "idle" /\ entry # "none"

ClarificationPath == <<"intent_recognition", "ask_clarification">>
ModificationPath == <<"intent_recognition", "feature_matching", "request_modification">>
AnalysisPath ==
    <<"intent_recognition", "feature_matching", "strategy_generation",
      "impact_prediction", "final_analysis">>

\* C1: on the graph and on the streamed workflow, a turn runs the stages of
\* the clarification path when the intent status is ambiguous, those of the
\* modification path when the match status is needs_refinement, and those of
\* the analysis path otherwise; no other stage is run.
C1_stage_sequences ==
    /\ \/ IsPrefix(trace, ClarificationPath)
       \/ IsPrefix(trace, ModificationPath)
       \/ IsPrefix(trace, AnalysisPath)
    /\ state.intent_status = "ambiguous" => IsPrefix(trace, ClarificationPath)
    /\ state.match_status = "needs_refinement" => IsPrefix(trace, ModificationPath)
    /\ (pc = "respond" \/ TurnEnded) =>
          trace = CASE state.intent_status = "ambiguous" -> ClarificationPath
                    [] state.match_status = "needs_refinement" -> ModificationPath
                    [] OTHER -> AnalysisPath

\* a streamed turn that ran the whole analysis path
C1_witness ==
    TurnEnded /\ entry = "analysis_v2_stream" /\ trace = AnalysisPath

\* C2: every turn ends in Clarification, ModificationRequest or FinalAnalysis
\* and hands a response to the caller; no handler ends in a fault.
C2_every_turn_returns_a_result ==
    /\ result.kind # "http500"
    /\ TurnEnded =>
         /\ result.kind = "response"
         /\ Last(trace) \in {"ask_clarification", "request_modification", "final_analysis"}

\* C3: in a turn on a session that has turns, intent recognition is given the
\* intent the preceding turn of the session resolved.
C3_prior_intent_is_previous_resolved ==
    (pc # "idle" /\ resolved[sid] # <<>>) =>
        state.previous_intent = SomeIntent(Last(resolved[sid]))

\* The payload a stage reads out of a delivered answer, if the answer holds
\* one JSON object it can read
Delivered(ans) == ans.out \in {"str", "complete"}
Payload(e, ans) ==
    LET m == BraceMatch(ans.text.segs)
    IN [ok |-> IF Streamed(e) THEN m # <<>> /\ JsonLoads(m).ok
               ELSE ParseResponse(ans.text) = "obj",
        obj |-> ans.text.obj]
Parsed(stage) ==
    reply.stage = stage /\ Delivered(reply.ans) /\ Payload(entry, reply.ans).ok
Unparsed(stage) ==
    reply.stage = stage /\ Delivered(reply.ans) /\ ~Payload(entry, reply.ans).ok

MergedFields == {"business_goal", "target_audience", "kpi", "size_preference"}

\* C4: with a prior intent, a field the new extraction leaves unset keeps the
\* prior intent's value in the intent the stage resolves.
C4_unset_field_inherits_prior ==
    (Parsed("intent_recognition") /\ resolved[sid] # <<>>) =>
        \A f \in MergedFields :
            reply.ans.text.obj[f] = Absent =>
                state.user_intent.d[f] = Last(resolved[sid])[f]

ConstraintsOf(turn) == GetList(turn.intent.constraints, ListOf(<<>>)).v

\* C5: a constraint of the intent stored by a turn is a constraint of the
\* intent stored by every later turn of the session.
C5_constraints_never_dropped ==
    \A s \in 1..Len(sessions) :
        \A k, n \in 1..Len(sessions[s].turns) :
            k < n => Range(ConstraintsOf(sessions[s].turns[k]))
                        \subseteq Range(ConstraintsOf(sessions[s].turns[n]))

\* the elements of a list in the order of their first appearance
RECURSIVE FirstAppearance(_)
FirstAppearance(seq) ==
    IF seq = <<>> THEN <<>>
    ELSE LET init == FirstAppearance(SubSeq(seq, 1, Len(seq) - 1))
         IN IF Last(seq) \in Range(init) THEN init ELSE Append(init, Last(seq))

\* C6: the constraints of a resolved intent hold no string twice, and the
\* consolidated constraints of a session are the constraints of its turns,
\* each once, in the order of first appearance.
C6_constraints_deduplicated_in_order ==
    /\ state.user_intent.tag = "dict" =>
          IsInjective(GetList(state.user_intent.d.constraints, ListOf(<<>>)).v)
    /\ consolidated.id # 0 =>
          consolidated.constraints =
              FirstAppearance(AllConstraints(sessions[consolidated.id].turns))

\* C7: an answer that holds no readable payload makes intent recognition end
\* ambiguous and the turn go to clarification, and makes feature matching end
\* needs_refinement and the turn go to the modification request; single-shot
\* and streamed alike.
C7_unparsable_answer_stops_turn ==
    /\ Unparsed("intent_recognition") =>
          state.intent_status = "ambiguous" /\ pc = "ask_clarification"
    /\ Unparsed("feature_matching") =>
          state.match_status = "needs_refinement" /\ pc = "request_modification"

\* C8: a payload without the flag yields clear (success) and the
\* turn goes on; the turn is stopped only by a flag that is present and false.
C8_only_false_flag_stops ==
    /\ Parsed("intent_recognition") =>
          /\ reply.ans.text.obj.is_clear = Absent =>
                state.intent_status = "clear" /\ pc = "feature_matching"
          /\ state.intent_status = "ambiguous" => reply.ans.text.obj.is_clear = "false"
    /\ Parsed("feature_matching") =>
          /\ reply.ans.text.obj.is_success = Absent =>
                state.match_status = "success" /\ pc = "strategy_generation"
          /\ state.match_status = "needs_refinement" =>
                reply.ans.text.obj.is_success = "false"

\* C9: when the request of intent recognition fails, the stage ends
\* ambiguous with the default empty intent and the turn goes to clarification.
C9_failed_call_is_ambiguous ==
    (reply.stage = "intent_recognition" /\ reply.ans.out \in {"error", "fallback"}) =>
        /\ state.intent_status = "ambiguous"
        /\ state.user_intent = SomeIntent(DefaultIntent)
        /\ pc = "ask_clarification"

\* ====================================================== rules that are skipped
RemoveAt(seq, i) == SubSeq(seq, 1, i - 1) \o SubSeq(seq, i + 1, Len(seq))

\* A numeric rule whose value does not stand for what its operator needs: a
\* pair of numbers for between, one number for the other operators
Uncoercible(r) ==
    /\ r.feature_type = "numeric"
    /\ IF r.operator = "between" THEN ~RulePair(r.value).ok
       ELSE ~RuleNumber(r.value).ok

\* C11: a rule whose value cannot be coerced is not applied, and the audience
\* is the audience of the same list without that rule.
C11_uncoercible_rule_is_skipped ==
    ev_out.done =>
        \A i \in 1..Len(ev_rules) :
            Uncoercible(ev_rules[i]) =>
                /\ ~ev_out.applied[i]
                /\ ev_out.audience = FilterUsers(RemoveAt(ev_rules, i)).users

\* ================================================ textual between values
\* C12: the forms "A and B", "A-B" and "A,B" of a between value, blanks
\* tolerated, all select the records whose attribute x has A <= x <= B; a
\* text that does not split into two numerals leaves the rule unapplied and
\* the candidates as they were.
C12_between_text_forms ==
    ev_out.done =>
        /\ ev_case.kind = "pair" =>
              /\ ev_out.applied = <<TRUE>>
              /\ ev_out.audience =
                    Keep(UserIds, LAMBDA id :
                           /\ ev_case.a.n <= 100 * MOCK_USERS_WITH_FEATURES[id].last_purchase_days
                           /\ 100 * MOCK_USERS_WITH_FEATURES[id].last_purchase_days <= ev_case.b.n)
        /\ ev_case.kind = "bad" =>
              ev_out.applied = <<FALSE>> /\ ev_out.audience = UserIds

\* "10-30" narrowed the population to the records between the endpoints
C12_witness ==
    /\ ev_out.done /\ ev_case.kind = "pair"
    /\ ev_rules = BetweenRule(<<"1", "0", "-", "3", "0">>)
    /\ ev_out.audience = <<2, 3, 4, 7, 10>>

\* The keys of the Feature Catalog the candidates are drawn over
CatalogKeys ==
    {"tier", "last_purchase_days", "brand_loyalty_score", "email_open_rate",
     "category_browsing_handbag", "has_overseas_purchase", "cart_items_pending"}

\* the payload's candidate list can be read: a list (or no list) of objects
CandidatesReadable(obj) ==
    /\ obj.matched_features.k # "null"
    /\ \A i \in 1..Len(obj.matched_features.v) : obj.matched_features.v[i].isdict
KnownCandidates(obj) ==
    SelectSeq(obj.matched_features.v, LAMBDA c : c.feature_name \in CatalogKeys)

\* C13: when feature matching reads a payload, the rule list holds exactly the
\* candidates whose feature name is a key of the catalog, in their order, each
\* with the type the catalog declares; candidates with an unknown name are
\* left out without the stage failing, and the match status is the one the
\* payload declares (success for true, needs_refinement for false).
C13_only_catalog_names_are_kept ==
    (Parsed("feature_matching") /\ CandidatesReadable(Payload(entry, reply.ans).obj)) =>
        /\ Len(state.matched_features.v) = Len(KnownCandidates(Payload(entry, reply.ans).obj))
        /\ \A i \in 1..Len(state.matched_features.v) :
              /\ state.matched_features.v[i].feature_name =
                    KnownCandidates(Payload(entry, reply.ans).obj)[i].feature_name
              /\ state.matched_features.v[i].value =
                    KnownCandidates(Payload(entry, reply.ans).obj)[i].value
              /\ state.matched_features.v[i].feature_type =
                    FEATURE_METADATA(state.matched_features.v[i].feature_name)
        /\ Payload(entry, reply.ans).obj.is_success = "true" => state.match_status = "success"
        /\ Payload(entry, reply.ans).obj.is_success = "false" =>
              state.match_status = "needs_refinement"
C13_witness ==
    /\ Parsed("feature_matching")
    /\ Payload(entry, reply.ans).obj.matched_features = ListOf(<<C_unknown, C_days>>)
    /\ Payload(entry, reply.ans).obj.is_success = "true"
    /\ Len(state.matched_features.v) = 1
    /\ state.matched_features.v[1].feature_name = "last_purchase_days"
    /\ state.match_status = "success"

\* C14: every rule of the rule list feature matching produced names an
\* operator the catalog declares valid for the rule's feature.
C14_rule_operators_are_valid ==
    reply.stage = "feature_matching" =>
        \A i \in 1..Len(state.matched_features.v) :
            state.matched_features.v[i].operator \in
                valid_operators(state.matched_features.v[i].feature_name)

\* no record of the population passes the rule list
MatchesNobody(rules) == FilterUsers(rules).users = <<>>

\* C15: after impact prediction on a rule list that no record passes, the
\* prediction has audience_size 0, conversion_rate 0, estimated_revenue 0,
\* roi 0, no top members and no tier distribution entry, and the next stage
\* is the final analysis.
C15_empty_audience_is_zeroed ==
    (reply.stage = "impact_prediction" /\ MatchesNobody(state.matched_features.v)) =>
        /\ state.prediction_result.set
        /\ state.prediction_result.audience_size = 0
        /\ state.prediction_result.conversion_rate = Zero
        /\ state.prediction_result.estimated_revenue = Zero
        /\ state.prediction_result.roi = 0
        /\ state.prediction_result.top_users = <<>>
        /\ DOMAIN state.prediction_result.tier_distribution = {}
        /\ pc = "final_analysis"
C15_witness ==
    /\ reply.stage = "impact_prediction"
    /\ state.matched_features.v # <<>>
    /\ state.matched_features.v[Len(state.matched_features.v)].value = Num(9000)
    /\ MatchesNobody(state.matched_features.v)
    /\ state.prediction_result.audience_size = 0
    /\ pc = "final_analysis"

\* the tag the caller is owed for the stage a turn ended in
TagOf(stage) ==
    CASE stage = "ask_clarification" -> "clarification_needed"
      [] stage = "request_modification" -> "modification_needed"
      [] stage = "final_analysis" -> "success"
      [] OTHER -> ""

\* C16: the result a v2 entry point returns for a turn is tagged
\* clarification_needed exactly when the turn ended in the clarification
\* stage, modification_needed exactly when it ended in the modification
\* request, and success exactly when it ended in the final analysis,
\* whatever text the collaborator returned in that stage.
C16_result_tag_names_final_stage ==
    (TurnEnded /\ entry \in {"analysis_v2", "analysis_v2_stream"}
       /\ result.kind = "response") =>
        result.status = TagOf(Last(trace))

\* the collaborator failed while answering: the request of the single-shot
\* call failed, or the stream broke off or carried a delta that is no text
CollaboratorFailed(ans) == ans.out \in {"error", "fallback", "raise"}

\* C17: when the collaborator fails during the final analysis, on the
\* single-shot and on the streamed entry points, the final response of the
\* turn is the fixed-format report built from the prediction result.
C17_failed_analysis_yields_fixed_report ==
    (reply.stage = "final_analysis" /\ CollaboratorFailed(reply.ans)) =>
        state.final_response = FallbackReport

\* C18: when the collaborator fails during strategy generation, on the
\* single-shot and on the streamed entry points, the strategy explanation is
\* the fixed try-again-later text and the next stage is impact prediction.
C18_failed_strategy_yields_fixed_text ==
    (reply.stage = "strategy_generation" /\ CollaboratorFailed(reply.ans)) =>
        /\ state.strategy_explanation = StrategyFallback
        /\ pc = "impact_prediction"

\* C19: when the collaborator call fails in the clarification stage (in the
\* modification request), the fixed fallback question (guidance) is both the
\* stage's output and the final response, and the turn goes on to respond.
C19_failed_terminal_stage_yields_fallback ==
    /\ (reply.stage = "ask_clarification" /\ CollaboratorFailed(reply.ans)) =>
          /\ state.clarification_question = ClarificationFallback
          /\ state.final_response = ClarificationFallback
          /\ pc \in {"respond", "idle"}
    /\ (reply.stage = "request_modification" /\ CollaboratorFailed(reply.ans)) =>
          /\ state.modification_request = ModificationFallback
          /\ state.final_response = ModificationFallback
          /\ pc \in {"respond", "idle"}

\* C20: the text accumulated from a stream is parsed at most once and only
\* after the stream was seen to complete; when the stream ended with an
\* error, also after some deltas, what was received is never parsed.
C20_parse_only_after_completion ==
    /\ stream.parses <= 1
    /\ stream.parses = 1 => stream.completed
    /\ (stream.failed \/ stream.event.type = "error") => stream.parses = 0

\* C21: of two turns on the same session, the one that started later read a
\* turn list that holds the turn of the one that started earlier.
C21_turns_of_a_session_do_not_overlap ==
    \A r1, r2 \in DOMAIN handlers :
        (/\ handlers[r1].pc # "idle" /\ handlers[r2].pc # "idle"
         /\ handlers[r1].sid = handlers[r2].sid
         /\ handlers[r1].start < handlers[r2].start) =>
            \E i \in 1..Len(handlers[r2].baseline) :
                handlers[r2].baseline[i] = TurnOf(r1)

\* C22: all get_or_create_session calls made with one session id return one
\* and the same Session, whether or not the store knew the id before.
C22_one_session_per_given_id ==
    \A r1, r2 \in DOMAIN handlers :
        (/\ handlers[r1].pc # "idle" /\ handlers[r2].pc # "idle"
         /\ handlers[r1].given # NoId
         /\ handlers[r1].given = handlers[r2].given) =>
            handlers[r1].sid = handlers[r2].sid

\* C23: right after the reset of an existing session id the id resolves no
\* more, the session returned is stored under another id with no turns and
\* an empty latest context; and an id is only ever gone from the store when
\* a session created after it has been stored.
C23_reset_replaces_the_session ==
    /\ (last_op.kind = "reset" /\ last_op.existed) =>
          /\ last_op.old \notin manager.live
          /\ last_op.new \in manager.live
          /\ last_op.new # last_op.old
          /\ manager.objects[last_op.new].turns = <<>>
          /\ manager.objects[last_op.new].current_context = EmptyContext
    /\ \A id \in 1..Len(manager.objects) :
          id \notin manager.live => id < Len(manager.objects)
C23_witness ==
    /\ last_op.kind = "reset" /\ last_op.existed
    /\ Len(manager.objects[last_op.old].turns) = 1
    /\ last_op.old \notin manager.live
    /\ manager.live = {last_op.new}

\* C24: every turn of a session's turn list was appended by a handler of
\* that session, and a request that names no session is answered without
\* anything a turn of some session has written (the ranked population).
C24_sessions_share_nothing ==
    /\ \A id \in 1..Len(manager.objects) :
          /\ \A i \in 1..Len(manager.objects[id].turns) :
                handlers[manager.objects[id].turns[i].response].sid = id
          /\ manager.objects[id].current_context.total_turns = Len(manager.objects[id].turns)
    /\ last_op.kind = "high_potential" => last_op.served = NoId

\* the rule list in another order
Permuted(rules, f) == [i \in 1..Len(rules) |-> rules[f[i]]]

\* C26: every permutation of a rule list yields the same set of records as
\* the list itself.
C26_rule_order_is_irrelevant ==
    ev_out.done =>
        \A f \in Permutations(1..Len(ev_rules)) :
            Range(FilterUsers(Permuted(ev_rules, f)).users) = Range(ev_out.audience)

C28_turn_holds_intent_and_prediction ==
    (TurnEnded /\ result.saved) =>
        /\ state.user_intent.tag = "dict" =>
              Last(sessions[sid].turns).intent = state.user_intent.d
        /\ Last(sessions[sid].turns).metrics = state.prediction_result
        /\ Last(sessions[sid].turns).metrics.set =
              (\E i \in 1..Len(trace) : trace[i] = "impact_prediction")

\* the text holds a well-formed structured block
HasBlock(text) == \E i \in 1..Len(text.segs) : text.segs[i] = "obj"

\* C29: a stage that reads a structured answer takes its result from the
\* first well-formed block of the delivered text, whatever prose, braces or
\* further block surround it; a text without any block sends the stage down
\* its fallback path.
C29_first_block_is_parsed ==
    /\ (reply.stage = "intent_recognition" /\ Delivered(reply.ans)) =>
          IF HasBlock(reply.ans.text)
          THEN /\ state.user_intent = SomeIntent(BuildIntent(reply.ans.text.obj))
               /\ state.intent_status = IntentStatusOf(reply.ans.text.obj)
          ELSE /\ state.user_intent = SomeIntent(IntentFallback.user_intent)
               /\ state.intent_status = IntentFallback.intent_status
    /\ (reply.stage = "feature_matching" /\ Delivered(reply.ans)) =>
          IF HasBlock(reply.ans.text)
          THEN /\ state.matched_features = ListOf(MatchFrom(reply.ans.text.obj).matched_features)
               /\ state.match_status = MatchFrom(reply.ans.text.obj).match_status
          ELSE /\ state.matched_features = ListOf(MatchFallback.matched_features)
               /\ state.match_status = MatchFallback.match_status


\* ------------------------------------------------------------ replays
\* what a run resolved: its position, the stages it visited, the Intent, the
\* rule list and the Prediction Result
Resolves(r) ==
    [pc |-> r.pc, trace |-> r.trace, user_intent |-> r.state.user_intent,
     intent_status |-> r.state.intent_status,
     matched_features |-> r.state.matched_features,
     prediction_result |-> r.state.prediction_result]

C30_flag_changes_nothing ==
    (twin.kind = "flag" /\ twin.x.is_modification # twin.y.is_modification)
        => Resolves(twin.x) = Resolves(twin.y)

\* a turn flagged in one run only went through to its prediction
C30_witness ==
    /\ twin.kind = "flag"
    /\ twin.x.is_modification /\ ~twin.y.is_modification
    /\ twin.x.pc = "respond"
    /\ twin.x.trace = <<"intent_recognition", "feature_matching",
                        "strategy_generation", "impact_prediction", "final_analysis">>
    /\ twin.x.state.prediction_result # NoPrediction


\* ---------------------------------------------------------- calculator
EmptyAudience(c) == c.audience_size = 0 /\ c.tier_distribution = EmptyDistribution

\* C31: for an empty audience (audience_size 0 and an empty tier
\* distribution) every calculator function and estimate_metrics return 0 for
\* each number, and no call divides by zero.
C31_empty_audience_is_zero_everywhere ==
    calc.call # "none" =>
        /\ \A i \in 1..Len(calc.numbers) : calc.numbers[i].den # 0
        /\ (EmptyAudience(calc) /\ calc.call # "predict_metrics")
              => \A i \in 1..Len(calc.numbers) : calc.numbers[i].num = 0

\* C32: the conversion rate and the ROI of the Prediction Result equal the
\* conversion rate and the ROI the calculator's endpoint serves for an
\* audience of the same size.
C32_one_conversion_and_roi_formula ==
    ev_out.done =>
        /\ RatioEq(ev_out.prediction_result.conversion_rate,
                   predict_metrics(ev_out.prediction_result.audience_size)
                       .conversion_rate)
        /\ RatioEq(Ratio(ev_out.prediction_result.roi, 1),
                   predict_metrics(ev_out.prediction_result.audience_size).roi)


\* ------------------------------------------------- catalog and records
\* the record carries the attribute: u.get(name) finds a value
Carries(id, name) == UserGet(id, name, NoneV) # NoneV

\* C33: every numeric, categorical or boolean catalog feature a rule may name
\* is an attribute of every population record, so no rule on a catalog
\* feature is evaluated against the absent-attribute default.
C33_catalog_features_are_record_attributes ==
    \A i \in 1..Len(ev_rules) :
        FEATURE_METADATA(ev_rules[i].feature_name)
                \in {"numeric", "categorical", "boolean"}
            => \A id \in Range(UserIds) : Carries(id, ev_rules[i].feature_name)


\* C34: a reset with an id the store does not hold creates no session
\* (clear_session returns None); a new Session comes only from a reset that
\* found and deleted the original.
C34_reset_of_unknown_id_creates_nothing ==
    (last_op.kind = "reset" /\ last_op.old # NoId /\ ~last_op.existed)
        => /\ last_op.new \notin manager.live
           /\ Len(manager.objects) < last_op.new


\* ------------------------------------------------------ turn lists
\* the snapshot of a session is empty before its first turn and afterwards
\* holds the last turn's intent, audience and metrics and the turn count
SnapshotOk(session) ==
    IF session.turns = <<>> THEN session.current_context = EmptyContext
    ELSE /\ session.current_context.set
         /\ session.current_context.latest_intent = Last(session.turns).intent
         /\ session.current_context.latest_audience = Last(session.turns).audience
         /\ session.current_context.latest_metrics = Last(session.turns).metrics
         /\ session.current_context.total_turns = Len(session.turns)

\* the turn list stayed, or got one turn appended behind the earlier ones
GrewByOne(before, after) ==
    \/ after = before
    \/ /\ Len(after) = Len(before) + 1
       /\ SubSeq(after, 1, Len(before)) = before

\* C35: every add_turn appends exactly one Turn behind the unchanged earlier
\* Turns, and the latest-context snapshot is that of the last Turn with
\* total_turns the length of the list (empty before the first add_turn).
C35_turn_list_only_grows ==
    [][\A id \in 1..Len(sessions') :
          /\ SnapshotOk(sessions'[id])
          /\ id <= Len(sessions)
                => GrewByOne(sessions[id].turns, sessions'[id].turns)]_vars

\* a session after its second turn, the two turns holding different intents
C35_witness ==
    \E id \in 1..Len(sessions) :
        /\ Len(sessions[id].turns) = 2
        /\ sessions[id].turns[1].intent # sessions[id].turns[2].intent
        /\ sessions[id].current_context.latest_intent = sessions[id].turns[2].intent
        /\ sessions[id].current_context.total_turns = 2


\* ------------------------------------------------- failed intent stage
\* the collaborator failed, or what it delivered holds no object to read
NotAnswered(e, ans) ==
    CollaboratorFailed(ans) \/ ~Delivered(ans) \/ ~Payload(e, ans).ok

LatestIntent(r) == r.store[r.sid].current_context.latest_intent

\* run r after a turn at entry e whose intent stage got a1 and whose next
\* stage got a2
ClarifiedTurn(e, r, a1, a2) ==
    end_turn(e, run_stage(e, run_stage(e, begin_turn(e, r, FALSE), a1), a2))

\* C36: a turn that ends in Clarification because the collaborator failed or
\* could not be parsed leaves the session's latest resolved Intent as it was
\* after the previous turn.
C36_failed_turn_keeps_latest_intent ==
    (twin.kind = "session" /\ twin.y.pc = "idle" /\ twin.y.sid # NoId) =>
        \A e \in Entries :
            \A a1 \in AnswersAt(e, "intent_recognition"),
               a2 \in AnswersAt(e, "ask_clarification") :
                (/\ NotAnswered(e, a1)
                 /\ run_stage(e, begin_turn(e, twin.y, FALSE), a1).pc
                        = "ask_clarification")
                    => LatestIntent(ClarifiedTurn(e, twin.y, a1, a2))
                           = LatestIntent(twin.y)


\* --------------------------------------------------------- node events
\* C37: in the streamed workflow every node_start is followed by the
\* node_complete of the same node before any other node starts and before
\* workflow_complete, and every node_complete follows its node_start.
C37_every_started_node_completes ==
    \A i \in 1..Len(sse.events) :
        /\ sse.events[i].type = "node_start" =>
              \/ i = Len(sse.events) /\ sse.phase = "open"
              \/ /\ i < Len(sse.events)
                 /\ sse.events[i + 1] = Event("node_complete", sse.events[i].node)
        /\ sse.events[i].type = "node_complete" =>
              /\ i > 1
              /\ sse.events[i - 1] = Event("node_start", sse.events[i].node)

\* the session of the request in flight or of the request that ended last
StreamSession == sse.run.store[sse.run.sid]
Delivered_workflow_complete ==
    \E i \in 1..Len(sse.events) : sse.events[i].type = "workflow_complete"

\* C38: a turn whose workflow_complete was delivered is recorded in the
\* session's turn list, also when the client disconnects right after that
\* event; a turn cancelled before workflow_complete leaves the turn list and
\* the snapshot as they were.
C38_delivered_turn_is_recorded ==
    /\ (sse.phase = "idle" /\ sse.ended # "none" /\ Delivered_workflow_complete)
          => Len(StreamSession.turns) = Len(sse.before.turns) + 1
    /\ sse.ended = "cancelled" => StreamSession = sse.before


\* --------------------------------------------------- prediction result
ScoreOf(id) == MOCK_USERS_WITH_FEATURES[id].score
NonIncreasing(top) ==
    \A i, j \in 1..Len(top) : i < j => ScoreOf(top[i]) >= ScoreOf(top[j])
TiersListed(p) == DOMAIN p.tier_distribution
TopOfAudience(p, audience) ==
    /\ Len(p.top_users) = (IF p.audience_size < TopN THEN p.audience_size ELSE TopN)
    /\ Range(p.top_users) \subseteq Range(audience)
    /\ IsInjective(p.top_users)
    /\ NonIncreasing(p.top_users)
DistributionOfAudience(p) ==
    /\ SumCounts(p.tier_distribution, TiersListed(p)) = p.audience_size
    /\ \A t \in TiersListed(p) : p.tier_distribution[t] >= 1

\* C39: in every prediction result the counts of the tier distribution sum
\* to audience_size, every listed tier has a count of at least 1, and the
\* top-members list holds min(5, audience_size) distinct members of the
\* audience in non-increasing score order.
C39_distribution_and_top_members ==
    ev_out.done =>
        /\ ev_out.prediction_result.audience_size = Len(ev_out.audience)
        /\ DistributionOfAudience(ev_out.prediction_result)
        /\ TopOfAudience(ev_out.prediction_result, ev_out.audience)
\* an audience of more than five members of at least two tiers whose best
\* five are not its first five
C39_witness ==
    /\ ev_out.done
    /\ Len(ev_out.audience) > TopN
    /\ Cardinality(TiersListed(ev_out.prediction_result)) >= 2
    /\ ev_out.prediction_result.top_users # FirstN(ev_out.audience, TopN)
    /\ Len(ev_out.prediction_result.top_users) = TopN


\* ------------------------------------------------------------- health
\* C40: with the LLM manager, the agent graph and the session manager
\* initialized, the health endpoint reports healthy with every component
\* ready, and active_sessions is the number of sessions the store holds.
C40_health_reports_ready_and_session_count ==
    last_op.kind = "health" =>
        /\ last_op.health.status = "healthy"
        /\ last_op.health.llm_manager = "ready"
        /\ last_op.health.agent_graph = "ready"
        /\ last_op.health.session_manager = "ready"
        /\ last_op.health.reports_active_sessions
        /\ last_op.health.active_sessions = Cardinality(manager.live)

====
